---- MODULE Spec2Model ----
(***************************************************************************)
(* State-machine model of the trading-signal engine's coordinated engines: *)
(* the download engine (jobs and the ensure path), the market-data client  *)
(* (retry loop, rate limit and pacing), the signal scanner, the backtest   *)
(* walk, and the live tracker with the signal routes that write trades.    *)
(*                                                                         *)
(* One (symbol, interval) pair is modelled.  Times are open_time values in *)
(* model units; the interval step, the batch size and the scanner's        *)
(* look-back are the program's constants scaled down (StepMs, BATCH_SIZE,  *)
(* WARMUP_CANDLES, MIN_HISTORY_MS) so that every branch of the code is     *)
(* reached in a small state space.                                         *)
(*                                                                         *)
(* The database is modelled with the semantics of the aiosqlite backend    *)
(* (database.py, _get_sqlite_db): writes of one connection become visible  *)
(* to the others at commit, and a connection closed before commit rolls    *)
(* its statements back.  Every await in the code is a step boundary: the   *)
(* actions of different tasks interleave exactly at those points.          *)
(*                                                                         *)
(* The functions without shared state (_expected_open_times,               *)
(* _upsert_candles, the sizing of a trade) and the two strategies (init    *)
(* and on_candle) are operators, applied by actions of their own to        *)
(* inputs drawn from small sets; amounts and percentages are integers      *)
(* chosen so that every quotient is exact, and NaN is NULL.                *)
(***************************************************************************)
EXTENDS Integers, Sequences, FiniteSets, TLC

\* ------------------------------------------------------------------ bounds
\* Number of candles the upstream holds for the pair (open_time 0 .. ).
MaxCandles == 4
\* Number of background sync tasks that may exist at once.
MaxTasks == 2
\* Number of on_candle calls of the tracker counted per trade and candle.
MaxCalls == 2

\* ------------------------------------------------------- program constants
\* INTERVAL_MS[interval], scaled (the real steps are 60_000 ms and up).
StepMs == 2
\* BATCH_SIZE = 500 in _sync_gaps_task and run_download_job, scaled.
BATCH_SIZE == 2
\* for attempt in range(max_retries)
max_retries == 8
\* WARMUP_CANDLES = 600 and MIN_HISTORY_MS = 365 days of the scanner, scaled:
\* as for the 1h interval, the history look-back is the longer of the two.
WARMUP_CANDLES == 1
MIN_HISTORY_MS == 4

Horizon == MaxCandles * StepMs

\* Every candle the upstream can serve: one per step from open_time 0.
UpstreamOpenTimes == {t \in 0..(Horizon - 1) : t % StepMs = 0}

Key == "BTCUSDT/1h"
Keys == {Key}

\* ----------------------------------------------------------------- helpers
Min(a, b) == IF a < b THEN a ELSE b

SeqToSet(s) == {s[k] : k \in 1..Len(s)}

RECURSIVE ExpectedLoop(_, _, _, _)
ExpectedLoop(t, end_ms, step, times) ==
    IF t < end_ms
    THEN ExpectedLoop(t + step, end_ms, step, Append(times, t))
    ELSE times

\* _expected_open_times: align start up to the interval boundary, then one
\* open_time per step while t < end_ms.
AlignedStartFloor(start_ms, step) == (start_ms \div step) * step
AlignedStart(start_ms, step) ==
    LET floored == (start_ms \div step) * step
    IN  IF floored < start_ms THEN floored + step ELSE floored

ExpectedOpenTimes(start_ms, end_ms, step) ==
    ExpectedLoop(AlignedStart(start_ms, step), end_ms, step, << >>)

\* _get_existing_open_times: SELECT open_time ... open_time>=? AND open_time<?
ExistingOpenTimes(store, start_ms, end_ms) ==
    {t \in store : t >= start_ms /\ t < end_ms}

\* sorted(set(expected) - existing); expected is ascending, so filtering it
\* keeps the order sorted() produces.
SortedGapsNone(expected, existing) == << >>
SortedGaps(expected, existing) ==
    SelectSeq(expected, LAMBDA t : t \notin existing)

\* The upstream's answer to GET /api/v3/klines?startTime&endTime&limit: the
\* candles it has with startTime <= open_time <= endTime, oldest first, at
\* most limit of them.
UpstreamKlinesAfterStart(start_time, end_time, limit) ==
    {t \in UpstreamOpenTimes : t > start_time /\ t <= end_time}
UpstreamKlines(start_time, end_time, limit) ==
    {t \in UpstreamOpenTimes :
        /\ t >= start_time
        /\ t <= end_time
        /\ Cardinality({u \in UpstreamOpenTimes : u >= start_time /\ u < t}) < limit}

\* The batch of gaps starting at index i (0-based, as in the code):
\* batch_end_idx, and the klines request made for it.
BatchEndIdx(gaps, i) == Min(i + BATCH_SIZE, Len(gaps))

BatchCandles(gaps, i) ==
    LET batch_start == gaps[i + 1]
        batch_end == gaps[BatchEndIdx(gaps, i)] + StepMs
    IN  UpstreamKlines(batch_start, batch_end - 1, BATCH_SIZE)

\* --------------------------------------------------------------- variables
VARIABLES
    klines,           \* open_time of the rows of table klines (the pair's)
    verified_ranges,  \* _verified_ranges: key -> end_ms confirmed complete
    syncing,          \* _syncing: keys with a background sync
    tasks,            \* the _sync_gaps_task coroutines, by slot
    ens,              \* the ensure_candles call of each caller task
    jobs,             \* table download_jobs: id -> row
    jobTask,          \* the run_download_job coroutine of job 1
    cancel,           \* the cancel_download request being served
    kl,               \* one BinanceClient.get_klines call
    now,              \* the wall clock, _now_ms()
    configs,          \* table signal_configs: id -> row
    strategy,         \* what the configured strategy answers on a closed candle
    db,               \* tables signals and sim_trades, committed rows
    scan,             \* the scan_config call of the scanner task
    clock,            \* time.monotonic(), in ticks of 50 ms
    rate_limit,       \* BinanceClient.rate_limit: the deadlines and last_request_time
    lock,             \* BinanceClient._lock: the caller holding it, 0 when free
    gk,               \* the get_klines call of each concurrent caller, timed
    wire,             \* the requests sent upstream: how many, and when the last
    bt_df,            \* the candle frame (df) run_backtest loaded
    params,           \* the params of the backtest request
    bt,               \* the run_backtest call: its locals and its BacktestResult
    tables,           \* signal_configs, signals, sim_trades, notification_log with
                      \* the columns of the trade life-cycle, committed rows
    trk,              \* the run_live_tracker task: the pass it is in and its locals
    last_candle_check,\* _last_candle_check[interval] of the tracker
    trk_log,          \* what the tracker did: the trades its intrabar pass closed in
                      \* the current turn of the loop, and its on_candle calls counted
    api,              \* the signal route being served: its locals and its response
    fn,               \* the last call of a function checked on its own: arguments, result
    candle_rows,      \* table klines with a value column: its rows
    upserted,         \* per primary key, the value last given to _upsert_candles
    strat             \* a Strategy instance after init, and its last on_candle call

ensureVars == <<verified_ranges, syncing, tasks, ens>>
jobVars == <<jobs, jobTask, cancel>>
clientVars == <<kl>>
scanVars == <<now, configs, strategy, db, scan>>
rateVars == <<clock, rate_limit, lock, gk, wire>>
btVars == <<bt_df, params, bt>>
trackVars == <<tables, trk, last_candle_check, trk_log, api>>
pureVars == <<fn, candle_rows, upserted, strat>>
vars == <<klines, verified_ranges, syncing, tasks, ens, jobs, jobTask, cancel,
          kl, now, configs, strategy, db, scan,
          clock, rate_limit, lock, gk, wire, bt_df, params, bt,
          tables, trk, last_candle_check, trk_log, api, fn, candle_rows, upserted, strat>>

Callers == {"scanner", "tracker"}
TaskIds == 1..MaxTasks

IdleEns == [pc |-> "idle", start_ms |-> 0, end_ms |-> 0,
            actual_count |-> 0, has_last |-> FALSE, ret |-> FALSE]
NoTask == [pc |-> "unused", start_ms |-> 0, end_ms |-> 0, gaps |-> << >>, i |-> 0]

\* The in-memory caches and the tasks as the process starts.
EnsureAtRest ==
    /\ verified_ranges = [k \in Keys |-> 0]
    /\ syncing = {}
    /\ tasks = [k \in TaskIds |-> NoTask]
    /\ ens = [c \in Callers |-> IdleEns]

\* _verified_ranges.get(key, 0)
VerifiedUpto(key) == verified_ranges[key]

\* -------------------------------------------------------------- ensure path
\* The call has returned r: its locals are gone, its arguments and the value
\* are what the caller holds.
EnsureDone(frame, r) ==
    [IdleEns EXCEPT !.pc = "done", !.start_ms = frame.start_ms,
                    !.end_ms = frame.end_ms, !.ret = r]

\* ensure_candles up to its first await (lines 287-302): the cache fast path
\* and the _syncing check.
EnsureEnter(s, e) ==
    IF VerifiedUpto(Key) >= e
    THEN [IdleEns EXCEPT !.pc = "done", !.start_ms = s, !.end_ms = e, !.ret = TRUE]
    ELSE IF Key \in syncing
    THEN [IdleEns EXCEPT !.pc = "done", !.start_ms = s, !.end_ms = e, !.ret = FALSE]
    ELSE [IdleEns EXCEPT !.pc = "count", !.start_ms = s, !.end_ms = e]

\* SELECT COUNT(*) FROM klines WHERE open_time>=? AND open_time<?
EnsureCount(c) ==
    /\ ens[c].pc = "count"
    /\ ens' = [ens EXCEPT ![c].pc = "last",
                          ![c].actual_count =
                              Cardinality(ExistingOpenTimes(klines, ens[c].start_ms, ens[c].end_ms))]
    /\ UNCHANGED <<pureVars, klines, verified_ranges, syncing, tasks, jobVars, clientVars, rateVars, btVars, trackVars, scanVars>>

\* SELECT 1 FROM klines WHERE open_time = end_ms - step_ms
EnsureHasLast(c) ==
    /\ ens[c].pc = "last"
    /\ ens' = [ens EXCEPT ![c].pc = "decide",
                          ![c].has_last = ((ens[c].end_ms - StepMs) \in klines)]
    /\ UNCHANGED <<pureVars, klines, verified_ranges, syncing, tasks, jobVars, clientVars, rateVars, btVars, trackVars, scanVars>>

\* Lines 319-333, after the connection is closed: either record the range as
\* verified, or register the key in _syncing and create the background task.
EnsureComplete(c) ==
    /\ ens[c].has_last
    /\ ens[c].actual_count >=
           Len(ExpectedOpenTimes(ens[c].start_ms, ens[c].end_ms, StepMs))

EnsureDecide(c) ==
    /\ ens[c].pc = "decide"
    /\ IF EnsureComplete(c)
       THEN /\ verified_ranges' = [verified_ranges EXCEPT ![Key] = ens[c].end_ms]
            /\ ens' = [ens EXCEPT ![c] = EnsureDone(ens[c], TRUE)]
            /\ UNCHANGED <<syncing, tasks>>
       ELSE /\ \E k \in TaskIds :
                 /\ tasks[k].pc = "unused"
                 /\ \A j \in TaskIds : j < k => tasks[j].pc # "unused"
                 /\ tasks' = [tasks EXCEPT ![k] =
                        [NoTask EXCEPT !.pc = "start",
                                       !.start_ms = ens[c].start_ms,
                                       !.end_ms = ens[c].end_ms]]
            /\ syncing' = syncing \cup {Key}
            /\ ens' = [ens EXCEPT ![c] = EnsureDone(ens[c], FALSE)]
            /\ UNCHANGED verified_ranges
    /\ UNCHANGED <<pureVars, klines, jobVars, clientVars, rateVars, btVars, trackVars, scanVars>>

\* ------------------------------------------------------- _sync_gaps_task
\* The finally clause: _syncing.discard(key); the coroutine ends.
SyncExitKeepsKey(k) ==
    /\ syncing' = syncing
    /\ tasks' = [tasks EXCEPT ![k] = NoTask]
SyncExit(k) ==
    /\ syncing' = syncing \ {Key}
    /\ tasks' = [tasks EXCEPT ![k] = NoTask]

\* Lines 201-217: expected is computed (an empty range returns at once), then
\* the gaps of the window are read from the store as it is now.
SyncStart(k) ==
    /\ tasks[k].pc = "start"
    /\ LET expected == ExpectedOpenTimes(tasks[k].start_ms, tasks[k].end_ms, StepMs)
           existing == ExistingOpenTimes(klines, tasks[k].start_ms, tasks[k].end_ms)
           gaps == SortedGaps(expected, existing)
       IN  IF Len(expected) = 0
           THEN /\ SyncExit(k)
                /\ UNCHANGED verified_ranges
           ELSE IF Len(gaps) = 0
           THEN /\ verified_ranges' = [verified_ranges EXCEPT ![Key] = tasks[k].end_ms]
                /\ SyncExit(k)
           ELSE /\ tasks' = [tasks EXCEPT ![k].pc = "fetch", ![k].gaps = gaps, ![k].i = 0]
                /\ UNCHANGED <<verified_ranges, syncing>>
    /\ UNCHANGED <<pureVars, klines, ens, jobVars, clientVars, rateVars, btVars, trackVars, scanVars>>

\* Lines 224-254, one turn of the batch loop: get_klines for the batch either
\* raises (logged, the task returns) or returns the candles, which are
\* parsed, validated and upserted; i advances to batch_end_idx.
SyncBatchAnswered(k) ==
    /\ tasks[k].pc = "fetch"
    /\ klines' = klines \cup BatchCandles(tasks[k].gaps, tasks[k].i)
    /\ LET next_i == BatchEndIdx(tasks[k].gaps, tasks[k].i)
       IN  tasks' = [tasks EXCEPT ![k].i = next_i,
                                  ![k].pc = IF next_i < Len(tasks[k].gaps)
                                            THEN "fetch" ELSE "verify"]
    /\ UNCHANGED <<pureVars, syncing, verified_ranges, ens, jobVars, clientVars, rateVars, btVars, trackVars, scanVars>>

SyncBatchFailed(k) ==
    /\ tasks[k].pc = "fetch"
    /\ SyncExit(k)
    /\ UNCHANGED <<pureVars, klines, verified_ranges, ens, jobVars, clientVars, rateVars, btVars, trackVars, scanVars>>

SyncBatch(k) == SyncBatchAnswered(k) \/ SyncBatchFailed(k)

\* Lines 256-267: the final verification.
SyncVerify(k) ==
    /\ tasks[k].pc = "verify"
    /\ LET expected == ExpectedOpenTimes(tasks[k].start_ms, tasks[k].end_ms, StepMs)
           final_existing == ExistingOpenTimes(klines, tasks[k].start_ms, tasks[k].end_ms)
           final_gaps == Cardinality(SeqToSet(expected) \ final_existing)
       IN  IF final_gaps = 0
           THEN verified_ranges' = [verified_ranges EXCEPT ![Key] = tasks[k].end_ms]
           ELSE UNCHANGED verified_ranges
    /\ SyncExit(k)
    /\ UNCHANGED <<pureVars, klines, ens, jobVars, clientVars, rateVars, btVars, trackVars, scanVars>>

\* Lines 269-272: any other exception (a database error) is logged; the
\* finally clause still runs.
SyncUnexpectedError(k) ==
    /\ tasks[k].pc \in {"start", "fetch", "verify"}
    /\ SyncExit(k)
    /\ UNCHANGED <<pureVars, klines, verified_ranges, ens, jobVars, clientVars, rateVars, btVars, trackVars, scanVars>>

\* ----------------------------------------- callers of the ensure path
\* The windows the engines ask for: the scanner's starts earlier than the
\* tracker's for the same end (signal_engine.py 180-183 against
\* live_tracker.py 101-109 and 315-317).
WindowStart(c) == IF c = "scanner" THEN 0 ELSE 2 * StepMs
WindowEnds == {3 * StepMs, 4 * StepMs}

\* A caller that asks for the same window on every cycle.
EnsureCallFixed(c) ==
    /\ ens[c].pc \in {"idle", "done"}
    /\ ens' = [ens EXCEPT ![c] = EnsureEnter(0, Horizon)]
    /\ UNCHANGED <<pureVars, klines, verified_ranges, syncing, tasks, jobVars, clientVars, rateVars, btVars, trackVars, scanVars>>

EnsureCall(c) ==
    /\ ens[c].pc \in {"idle", "done"}
    /\ \E e \in WindowEnds :
         ens' = [ens EXCEPT ![c] = EnsureEnter(WindowStart(c), e)]
    /\ UNCHANGED <<pureVars, klines, verified_ranges, syncing, tasks, jobVars, clientVars, rateVars, btVars, trackVars, scanVars>>

\* --------------------------------------------------------- download jobs
JobIds == {1}
\* An id no row has, for requests that name a missing job.
MissingJobId == Cardinality(JobIds) + 1
TerminalStatuses == {"completed", "failed", "cancelled"}

NoJobTask == [pc |-> "none", job_id |-> 0, start_ms |-> 0, end_ms |-> 0,
              gaps |-> << >>, i |-> 0, total_downloaded |-> 0,
              fetch_error |-> FALSE, outcome |-> "none"]
IdleCancel == [pc |-> "idle", job_id |-> 0, ret |-> FALSE]

JobsAtRest ==
    /\ jobs = << >>
    /\ jobTask = NoJobTask
    /\ cancel = IdleCancel

\* _update_job appends to the log it has just read; only the job's own task
\* writes the log.
AppendLog(row, entry) == [row EXCEPT !.log = Append(row.log, entry)]

\* start_download: create_download_job inserts the row as pending, then
\* start_download_job_task schedules run_download_job for it.
StartDownload ==
    /\ jobTask.pc = "none"
    /\ 1 \notin DOMAIN jobs
    /\ \E s \in {0, 1}, e \in {Horizon - StepMs, Horizon} :
         /\ jobs' = (1 :> [status |-> "pending", start_time |-> s, end_time |-> e,
                           candles_expected |-> 0, candles_downloaded |-> 0,
                           gaps_found |-> 0, log |-> << >>])
         /\ jobTask' = [NoJobTask EXCEPT !.pc = "load", !.job_id = 1]
    /\ UNCHANGED <<pureVars, klines, ensureVars, clientVars, rateVars, btVars, trackVars, scanVars, cancel>>

\* The coroutine returns; outcome tells whether an exception left it.
JobReturn(frame) == [frame EXCEPT !.pc = "done", !.outcome = "returned"]

\* run_download_job lines 338-354: the row is read; a cancelled job is left
\* alone.
JobLoad ==
    /\ jobTask.pc = "load"
    /\ LET row == jobs[jobTask.job_id]
       IN  IF row.status = "cancelled"
           THEN jobTask' = JobReturn(jobTask)
           ELSE jobTask' = [jobTask EXCEPT !.pc = "mark_running",
                                           !.start_ms = row.start_time,
                                           !.end_ms = row.end_time]
    /\ UNCHANGED <<pureVars, klines, ensureVars, clientVars, rateVars, btVars, trackVars, scanVars, jobs, cancel>>

\* Line 357: _update_job(status="running", log_entry=...).
JobMarkRunning ==
    /\ jobTask.pc = "mark_running"
    /\ jobs' = [jobs EXCEPT ![jobTask.job_id] =
                   AppendLog([@ EXCEPT !.status = "running"], "started")]
    /\ jobTask' = [jobTask EXCEPT !.pc = "plan"]
    /\ UNCHANGED <<pureVars, klines, ensureVars, clientVars, rateVars, btVars, trackVars, scanVars, cancel>>

\* Lines 361-375: expected open times, the rows present, the gaps.
JobPlan ==
    /\ jobTask.pc = "plan"
    /\ LET expected == ExpectedOpenTimes(jobTask.start_ms, jobTask.end_ms, StepMs)
           existing == ExistingOpenTimes(klines, jobTask.start_ms, jobTask.end_ms)
           gaps == SortedGaps(expected, existing)
       IN  /\ jobs' = [jobs EXCEPT ![jobTask.job_id] =
                          AppendLog(AppendLog([@ EXCEPT !.candles_expected = Len(expected),
                                                        !.gaps_found = Len(gaps)],
                                              "expected"), "found")]
           /\ jobTask' = [jobTask EXCEPT !.gaps = gaps, !.i = 0,
                                         !.total_downloaded = Cardinality(existing),
                                         !.pc = IF Len(gaps) > 0 THEN "check" ELSE "final"]
    /\ UNCHANGED <<pureVars, klines, ensureVars, clientVars, rateVars, btVars, trackVars, scanVars, cancel>>

\* Lines 382-386: the status is polled before each batch.
JobCheckCancelIgnored ==
    /\ jobTask.pc = "check"
    /\ jobTask' = [jobTask EXCEPT !.pc = "batch"]
    /\ UNCHANGED <<pureVars, klines, ensureVars, clientVars, rateVars, btVars, trackVars, scanVars, jobs, cancel>>
JobCheckCancel ==
    /\ jobTask.pc = "check"
    /\ IF jobs[jobTask.job_id].status = "cancelled"
       THEN jobTask' = JobReturn(jobTask)
       ELSE jobTask' = [jobTask EXCEPT !.pc = "batch"]
    /\ UNCHANGED <<pureVars, klines, ensureVars, clientVars, rateVars, btVars, trackVars, scanVars, jobs, cancel>>

\* A handler that logs the error and leaves the status as it is.
JobFailedStatusKept(row) == AppendLog(row, "error")

\* Lines 433-435: the handler of any exception raised inside the try block.
JobFailed(row) == AppendLog([row EXCEPT !.status = "failed"], "error")

JobOnException(frame) == JobReturn([frame EXCEPT !.fetch_error = TRUE])

\* Lines 388-419, one batch: get_klines returns the candles, which are
\* parsed, validated and upserted, and the progress is written; or get_klines
\* raises and the except clause marks the job failed.
JobBatch ==
    /\ jobTask.pc = "batch"
    /\ \/ LET candles == BatchCandles(jobTask.gaps, jobTask.i)
              next_i == BatchEndIdx(jobTask.gaps, jobTask.i)
              total == jobTask.total_downloaded + Cardinality(candles)
          IN  /\ klines' = klines \cup candles
              /\ jobs' = [jobs EXCEPT ![jobTask.job_id] =
                             AppendLog([@ EXCEPT !.candles_downloaded = total], "batch")]
              /\ jobTask' = [jobTask EXCEPT !.i = next_i, !.total_downloaded = total,
                                            !.pc = IF next_i < Len(jobTask.gaps)
                                                   THEN "check" ELSE "final"]
       \/ /\ jobs' = [jobs EXCEPT ![jobTask.job_id] = JobFailed(@)]
          /\ jobTask' = JobOnException(jobTask)
          /\ UNCHANGED klines
    /\ UNCHANGED <<pureVars, ensureVars, clientVars, rateVars, btVars, trackVars, scanVars, cancel>>

\* Lines 421-431: the final re-scan and the terminal status.
JobFinal ==
    /\ jobTask.pc = "final"
    /\ LET expected == ExpectedOpenTimes(jobTask.start_ms, jobTask.end_ms, StepMs)
           final_existing == ExistingOpenTimes(klines, jobTask.start_ms, jobTask.end_ms)
           final_gaps == SeqToSet(expected) \ final_existing
       IN  jobs' = [jobs EXCEPT ![jobTask.job_id] =
                       AppendLog([@ EXCEPT !.status = "completed",
                                           !.candles_downloaded = Cardinality(final_existing),
                                           !.gaps_found = Cardinality(final_gaps)],
                                 "complete")]
    /\ jobTask' = JobReturn(jobTask)
    /\ UNCHANGED <<pureVars, klines, ensureVars, clientVars, rateVars, btVars, trackVars, scanVars, cancel>>

\* cancel_job: UPDATE download_jobs SET status='cancelled' WHERE id=? AND
\* status IN ('pending','running'); returns cursor.rowcount > 0.
\* An UPDATE whose WHERE clause names the id alone.
CancelMatchesAnyStatus(j) == j \in DOMAIN jobs

CancelMatches(j) == j \in DOMAIN jobs /\ jobs[j].status \in {"pending", "running"}

CancelJob(j) ==
    /\ cancel.pc = "idle"
    /\ IF CancelMatches(j)
       THEN /\ jobs' = [jobs EXCEPT ![j].status = "cancelled"]
            /\ cancel' = [pc |-> "done", job_id |-> j, ret |-> TRUE]
       ELSE /\ UNCHANGED jobs
            /\ cancel' = [pc |-> "done", job_id |-> j, ret |-> FALSE]
    /\ UNCHANGED <<pureVars, klines, ensureVars, clientVars, rateVars, btVars, trackVars, scanVars, jobTask>>

\* cancel_download answers: 200 when cancel_job returned true, 400 otherwise.
CancelRespond ==
    /\ cancel.pc = "done"
    /\ cancel' = IdleCancel
    /\ UNCHANGED <<pureVars, klines, ensureVars, clientVars, rateVars, btVars, trackVars, scanVars, jobs, jobTask>>

\* ------------------------------------------- BinanceClient.get_klines
\* What one request to the upstream can end in: a status the loop handles,
\* a timeout, or any other status (raise_for_status raises).
Outcomes == {"200", "429", "418", "timeout", "error"}

IdleKl == [pc |-> "idle", attempt |-> 0, responses |-> << >>]

ClientAtRest == kl = IdleKl

\* for attempt in range(max_retries): the loop body runs while this holds.
MayAttemptOnceMore(attempt) == attempt <= max_retries
MayAttempt(attempt) == attempt < max_retries

KlCall ==
    /\ kl.pc \in {"idle", "returned", "raised"}
    /\ kl' = [IdleKl EXCEPT !.pc = "attempt"]
    /\ UNCHANGED <<pureVars, klines, ensureVars, jobVars, scanVars, rateVars, btVars, trackVars>>

\* One turn of the loop: the request is sent under the lock and its outcome
\* handled; 429, 418 and a timeout sleep and go to the next attempt.
KlAttempt(o) ==
    /\ kl.pc = "attempt"
    /\ MayAttempt(kl.attempt)
    /\ kl' = [kl EXCEPT !.responses = Append(@, o),
                        !.attempt = IF o \in {"429", "418", "timeout"} THEN @ + 1 ELSE @,
                        !.pc = IF o = "200" THEN "returned"
                               ELSE IF o = "error" THEN "raised"
                               ELSE "attempt"]
    /\ UNCHANGED <<pureVars, klines, ensureVars, jobVars, scanVars, rateVars, btVars, trackVars>>

\* The loop is over: raise RuntimeError("Failed to fetch klines ...").
KlExhausted ==
    /\ kl.pc = "attempt"
    /\ ~MayAttempt(kl.attempt)
    /\ kl' = [kl EXCEPT !.pc = "raised"]
    /\ UNCHANGED <<pureVars, klines, ensureVars, jobVars, scanVars, rateVars, btVars, trackVars>>

\* ------------------------------- BinanceClient: rate limit and pacing
\* Number of tasks calling get_klines at once, and how far the clock runs.
MaxCallers == 2
MaxClock == 16

\* MIN_REQUEST_INTERVAL = 0.1 s, in ticks of 50 ms.
MIN_REQUEST_INTERVAL == 2
Second == 10 * MIN_REQUEST_INTERVAL

RateCallers == 1..MaxCallers

\* The Retry-After header of a 429 or a 418, in ticks.
RetryAfters == {0, 3}

RECURSIVE Pow2(_)
Pow2(n) == IF n <= 0 THEN 1 ELSE 2 * Pow2(n - 1)
Max(a, b) == IF a >= b THEN a ELSE b

\* _exponential_backoff(attempt): delay * (0.5 + random() * 0.5), with
\* delay = min(base * 2 ** attempt, cap); the two ends of the jitter.
ExponentialBackoff(attempt) ==
    LET delay == Min(Second * Pow2(attempt), 60 * Second)
    IN  {delay \div 2, delay - 1}

\* KLINES_REQUEST_WEIGHT, and the X-MBX-USED-WEIGHT-1M header of a response:
\* the weight of the requests the upstream has received.
KLINES_REQUEST_WEIGHT == 2
UsedWeightHeader == wire.n * KLINES_REQUEST_WEIGHT

IdleGk == [pc |-> "idle", attempt |-> 0, wake |-> 0, then |-> "idle"]

\* RateLimitState() of the module's one client, and no call in progress.
RateAtRest ==
    /\ clock = 0
    /\ rate_limit = [used_weight |-> 0, blocked_until |-> 0, backoff_until |-> 0,
                     last_request_time |-> 0]
    /\ lock = 0
    /\ gk = [c \in RateCallers |-> IdleGk]
    /\ wire = [n |-> 0, last |-> 0]

\* await asyncio.sleep(d): the task resumes at `then` once d has gone by.
Sleep(frame, d, then) == [frame EXCEPT !.pc = "sleep", !.wake = clock + d, !.then = then]

\* Minimum pacing: how long _wait_for_rate_limit sleeps after `elapsed`.
PacingSleepNone(elapsed) == 0
PacingSleep(elapsed) ==
    IF elapsed < MIN_REQUEST_INTERVAL THEN MIN_REQUEST_INTERVAL - elapsed ELSE 0

GkCall(c) ==
    /\ gk[c].pc = "idle"
    /\ gk' = [gk EXCEPT ![c] = [IdleGk EXCEPT !.pc = "loop"]]
    /\ UNCHANGED <<pureVars, klines, ensureVars, jobVars, clientVars, scanVars, btVars, trackVars,
                   clock, rate_limit, lock, wire>>

\* for attempt in range(max_retries): async with self._lock
GkLoopUnlocked(c) ==
    /\ gk[c].pc = "loop"
    /\ MayAttempt(gk[c].attempt)
    /\ lock' = c
    /\ gk' = [gk EXCEPT ![c].pc = "blocked"]
    /\ UNCHANGED <<pureVars, klines, ensureVars, jobVars, clientVars, scanVars, btVars, trackVars,
                   clock, rate_limit, wire>>
GkLoop(c) ==
    /\ gk[c].pc = "loop"
    /\ MayAttempt(gk[c].attempt)
    /\ lock = 0
    /\ lock' = c
    /\ gk' = [gk EXCEPT ![c].pc = "blocked"]
    /\ UNCHANGED <<pureVars, klines, ensureVars, jobVars, clientVars, scanVars, btVars, trackVars,
                   clock, rate_limit, wire>>

\* The loop is over: raise RuntimeError.
GkExhausted(c) ==
    /\ gk[c].pc = "loop"
    /\ ~MayAttempt(gk[c].attempt)
    /\ gk' = [gk EXCEPT ![c] = IdleGk]
    /\ UNCHANGED <<pureVars, klines, ensureVars, jobVars, clientVars, scanVars, btVars, trackVars,
                   clock, rate_limit, lock, wire>>

\* _wait_for_rate_limit: if self.rate_limit.blocked_until > now
GkWaitBlocked(c) ==
    /\ gk[c].pc = "blocked"
    /\ gk' = [gk EXCEPT ![c] =
                IF rate_limit.blocked_until > clock
                THEN Sleep(@, rate_limit.blocked_until - clock, "backoff")
                ELSE [@ EXCEPT !.pc = "backoff"]]
    /\ UNCHANGED <<pureVars, klines, ensureVars, jobVars, clientVars, scanVars, btVars, trackVars,
                   clock, rate_limit, lock, wire>>

\* _wait_for_rate_limit: if self.rate_limit.backoff_until > now
GkWaitBackoff(c) ==
    /\ gk[c].pc = "backoff"
    /\ gk' = [gk EXCEPT ![c] =
                IF rate_limit.backoff_until > clock
                THEN Sleep(@, rate_limit.backoff_until - clock, "pacing")
                ELSE [@ EXCEPT !.pc = "pacing"]]
    /\ UNCHANGED <<pureVars, klines, ensureVars, jobVars, clientVars, scanVars, btVars, trackVars,
                   clock, rate_limit, lock, wire>>

\* _wait_for_rate_limit: the minimum pacing.
GkPacing(c) ==
    /\ gk[c].pc = "pacing"
    /\ LET d == PacingSleep(clock - rate_limit.last_request_time)
       IN  gk' = [gk EXCEPT ![c] =
                    IF d > 0 THEN Sleep(@, d, "send") ELSE [@ EXCEPT !.pc = "send"]]
    /\ UNCHANGED <<pureVars, klines, ensureVars, jobVars, clientVars, scanVars, btVars, trackVars,
                   clock, rate_limit, lock, wire>>

\* client.get(KLINES_ENDPOINT, params=params): the request leaves.
GkSend(c) ==
    /\ gk[c].pc = "send"
    /\ wire' = [n |-> wire.n + 1, last |-> clock]
    /\ gk' = [gk EXCEPT ![c].pc = "inflight"]
    /\ UNCHANGED <<pureVars, klines, ensureVars, jobVars, clientVars, scanVars, btVars, trackVars,
                   clock, rate_limit, lock>>

\* The outcome of the request, handled under the lock: a response stamps
\* last_request_time; 429 sets backoff_until and 418 blocked_until, and both
\* sleep before the lock is released; a timeout only sleeps.
GkRespond(c, o, retry_after) ==
    /\ gk[c].pc = "inflight"
    /\ \E jitter \in ExponentialBackoff(gk[c].attempt) :
       LET stamped == [rate_limit EXCEPT !.last_request_time = clock,
                                         !.used_weight = UsedWeightHeader]
           backoff == Max(retry_after, jitter)
       IN  CASE o = "200" \/ o = "error" ->
                    /\ rate_limit' = stamped
                    /\ lock' = 0
                    /\ gk' = [gk EXCEPT ![c] = IdleGk]
             [] o = "429" ->
                    /\ rate_limit' = [stamped EXCEPT !.backoff_until = clock + backoff]
                    /\ gk' = [gk EXCEPT ![c] = Sleep(@, backoff, "loop")]
                    /\ UNCHANGED lock
             [] o = "418" ->
                    /\ rate_limit' = [stamped EXCEPT !.blocked_until = clock + retry_after]
                    /\ gk' = [gk EXCEPT ![c] = Sleep(@, retry_after, "loop")]
                    /\ UNCHANGED lock
             [] o = "timeout" ->
                    /\ gk' = [gk EXCEPT ![c] = Sleep(@, jitter, "loop")]
                    /\ UNCHANGED <<rate_limit, lock>>
    /\ UNCHANGED <<pureVars, klines, ensureVars, jobVars, clientVars, scanVars, btVars, trackVars, clock, wire>>

\* A sleep is over; the one after a response ends the `async with` block
\* and the turn of the loop.
GkWake(c) ==
    /\ gk[c].pc = "sleep"
    /\ clock >= gk[c].wake
    /\ IF gk[c].then = "loop"
       THEN /\ gk' = [gk EXCEPT ![c] = [IdleGk EXCEPT !.pc = "loop",
                                                        !.attempt = gk[c].attempt + 1]]
            /\ lock' = 0
       ELSE /\ gk' = [gk EXCEPT ![c] = [IdleGk EXCEPT !.pc = gk[c].then,
                                                        !.attempt = gk[c].attempt]]
            /\ UNCHANGED lock
    /\ UNCHANGED <<pureVars, klines, ensureVars, jobVars, clientVars, scanVars, btVars, trackVars,
                   clock, rate_limit, wire>>

ClockTick ==
    /\ clock < MaxClock
    /\ clock' = clock + 1
    /\ UNCHANGED <<pureVars, klines, ensureVars, jobVars, clientVars, scanVars, btVars, trackVars,
                   rate_limit, lock, gk, wire>>

\* ------------------------------------------------------- signal scanner
ConfigIds == {1}
Verdicts == {"none", "entry_long", "entry_short", "init_error"}
\* The candles the scanner can see as last closed while the clock runs from
\* its initial value to Horizon.
FirstNow == MIN_HISTORY_MS + StepMs
ScanCandles == {t \in UpstreamOpenTimes : t >= FirstNow - StepMs}

EmptyDb == [signals |-> << >>, sim_trades |-> << >>]
IdleScan == [pc |-> "idle", last_closed |-> 0, side |-> "none", conn |-> EmptyDb,
             signal_id |-> 0, emitted |-> "no", had_signal |-> FALSE,
             outcome |-> "none"]

ScanAtRest ==
    /\ now = FirstNow
    /\ configs = [c \in ConfigIds |-> [last_processed_candle |-> 0]]
    /\ strategy = [t \in ScanCandles |-> "none"]
    /\ db = EmptyDb
    /\ scan = IdleScan

\* _last_closed_candle_time
LastClosedCandleTime(now_ms, step) == (now_ms \div step) * step - step

\* start_ms = min(warmup_start, history_start)
ScanStartMs(last_closed, step) ==
    Min(last_closed - WARMUP_CANDLES * step, last_closed - MIN_HISTORY_MS)

MaxOf(S) == CHOOSE x \in S : \A y \in S : y <= x

\* The unique index idx_signals_dedup on signals(config_id, trigger_candle_time).
UniqueViolationRelaxed(rows, row) == FALSE
UniqueViolation(rows, row) ==
    \E n \in 1..Len(rows) :
        /\ rows[n].config_id = row.config_id
        /\ rows[n].trigger_candle_time = row.trigger_candle_time

\* _signal_exists: SELECT 1 FROM signals WHERE config_id = ? AND
\* trigger_candle_time = ?
SignalExists(rows, config_id, trigger_candle_time) ==
    \E n \in 1..Len(rows) :
        /\ rows[n].config_id = config_id
        /\ rows[n].trigger_candle_time = trigger_candle_time

\* A connection that is closed without commit rolls its statements back:
\* d is the committed database, c the connection's view of it.
CloseKeepsWrites(d, c) == c
CloseWithoutCommit(d, c) == d

\* The scan_config call has returned (or raised): its locals are gone; what
\* stays is the candle it ran for and how it ended.
ScanDone(frame, how) ==
    [IdleScan EXCEPT !.pc = "done", !.last_closed = frame.last_closed,
                     !.emitted = frame.emitted, !.had_signal = frame.had_signal,
                     !.outcome = how]

\* The scanner loop reads the config and calls scan_config, which runs up to
\* the first await inside ensure_candles (lines 166-186).  lp is the
\* watermark of the config dict the call is given: the row's present value
\* or an earlier one (a stale snapshot).
ScanBegin(id, lp) ==
    /\ scan.pc \in {"idle", "done"}
    /\ ens["scanner"].pc \in {"idle", "done"}
    /\ lp <= configs[id].last_processed_candle
    /\ LET last_closed == LastClosedCandleTime(now, StepMs)
           frame == [IdleScan EXCEPT
                        !.last_closed = last_closed,
                        !.had_signal = SignalExists(db.signals, id, last_closed)]
       IN  IF last_closed <= lp
           THEN /\ scan' = ScanDone(frame, "skipped")
                /\ UNCHANGED ens
           ELSE /\ scan' = [frame EXCEPT !.pc = "ensure"]
                /\ ens' = [ens EXCEPT !["scanner"] =
                              EnsureEnter(ScanStartMs(last_closed, StepMs),
                                          last_closed + StepMs)]
    /\ UNCHANGED <<pureVars, klines, verified_ranges, syncing, tasks, jobVars, clientVars, rateVars, btVars, trackVars,
                   now, configs, strategy, db>>

\* ensure_candles has returned: not ready skips the cycle (lines 187-192).
ScanEnsuredLoadsAnyway ==
    /\ scan.pc = "ensure"
    /\ ens["scanner"].pc = "done"
    /\ scan' = [scan EXCEPT !.pc = "load"]
    /\ UNCHANGED <<pureVars, klines, ensureVars, jobVars, clientVars, rateVars, btVars, trackVars,
                   now, configs, strategy, db>>
ScanEnsured ==
    /\ scan.pc = "ensure"
    /\ ens["scanner"].pc = "done"
    /\ scan' = IF ens["scanner"].ret
               THEN [scan EXCEPT !.pc = "load"]
               ELSE ScanDone(scan, "skipped")
    /\ UNCHANGED <<pureVars, klines, ensureVars, jobVars, clientVars, rateVars, btVars, trackVars,
                   now, configs, strategy, db>>

\* Lines 194-217: the frame is loaded and checked, the strategy initialised
\* and asked about the last closed candle.
ScanLoadSkipsNothing ==
    /\ scan.pc = "load"
    /\ scan' = [scan EXCEPT !.pc = "watermark"]
    /\ UNCHANGED <<pureVars, klines, ensureVars, jobVars, clientVars, rateVars, btVars, trackVars,
                   now, configs, strategy, db>>
ScanLoad ==
    /\ scan.pc = "load"
    /\ LET df == ExistingOpenTimes(klines,
                     ScanStartMs(scan.last_closed, StepMs), scan.last_closed + StepMs)
           verdict == strategy[scan.last_closed]
       IN  scan' =
             IF Cardinality(df) < 2 THEN ScanDone(scan, "skipped")
             ELSE IF MaxOf(df) # scan.last_closed THEN ScanDone(scan, "skipped")
             ELSE IF verdict = "init_error" THEN ScanDone(scan, "skipped")
             ELSE IF verdict = "none" THEN [scan EXCEPT !.pc = "watermark"]
             ELSE [scan EXCEPT !.pc = "insert_signal",
                               !.side = IF verdict = "entry_long" THEN "long" ELSE "short"]
    /\ UNCHANGED <<pureVars, klines, ensureVars, jobVars, clientVars, rateVars, btVars, trackVars,
                   now, configs, strategy, db>>

\* _create_signal_and_sim_trade, lines 120-138: a connection is opened and
\* the signal inserted; a violation of the unique index is caught, None is
\* returned and scan_config goes on to the watermark.
ScanInsertSignal(id) ==
    /\ scan.pc = "insert_signal"
    /\ LET row == [id |-> Len(db.signals) + 1, config_id |-> id,
                   trigger_candle_time |-> scan.last_closed, side |-> scan.side]
       IN  IF UniqueViolation(db.signals, row)
           THEN scan' = [scan EXCEPT !.pc = "watermark", !.emitted = "duplicate"]
           ELSE scan' = [scan EXCEPT !.pc = "insert_trade",
                                     !.conn = [db EXCEPT !.signals = Append(@, row)],
                                     !.signal_id = row.id]
    /\ UNCHANGED <<pureVars, klines, ensureVars, jobVars, clientVars, rateVars, btVars, trackVars,
                   now, configs, strategy, db>>

\* Lines 140-154: the sim_trade is inserted on the same connection; if the
\* statement fails the exception leaves the with block, the connection is
\* closed and scan_config raises into the scanner loop.
ScanInsertTrade ==
    /\ scan.pc = "insert_trade"
    /\ \/ /\ scan' = [scan EXCEPT
                         !.pc = "commit",
                         !.conn.sim_trades =
                             Append(@, [id |-> Len(db.sim_trades) + 1,
                                        signal_id |-> scan.signal_id,
                                        status |-> "pending_entry"])]
          /\ UNCHANGED db
       \/ /\ db' = CloseWithoutCommit(db, scan.conn)
          /\ scan' = ScanDone(scan, "raised")
    /\ UNCHANGED <<pureVars, klines, ensureVars, jobVars, clientVars, rateVars, btVars, trackVars, now, configs, strategy>>

\* Line 155: db.commit() publishes both rows, or fails.
ScanCommit ==
    /\ scan.pc = "commit"
    /\ \/ /\ db' = scan.conn
          /\ scan' = [scan EXCEPT !.pc = "watermark", !.conn = EmptyDb,
                                  !.emitted = "created"]
       \/ /\ db' = CloseWithoutCommit(db, scan.conn)
          /\ scan' = ScanDone(scan, "raised")
    /\ UNCHANGED <<pureVars, klines, ensureVars, jobVars, clientVars, rateVars, btVars, trackVars, now, configs, strategy>>

\* _update_last_processed: UPDATE signal_configs SET last_processed_candle = ?
\* and commit, a blind write.
LastProcessedKept(row, candle_time) == row
UpdateLastProcessed(row, candle_time) ==
    [row EXCEPT !.last_processed_candle = candle_time]

\* Line 231: the watermark write that ends scan_config.
ScanWatermark(id) ==
    /\ scan.pc = "watermark"
    /\ configs' = [configs EXCEPT ![id] = UpdateLastProcessed(@, scan.last_closed)]
    /\ scan' = ScanDone(scan, "evaluated")
    /\ UNCHANGED <<pureVars, klines, ensureVars, jobVars, clientVars, rateVars, btVars, trackVars, now, strategy, db>>

\* live_tracker._fill_pending_entries: for a trade waiting for its entry the
\* tracker asks for the trigger candle and the one after it.
TrackerEnsure ==
    /\ ens["tracker"].pc \in {"idle", "done"}
    /\ \E n \in 1..Len(db.sim_trades) :
         /\ db.sim_trades[n].status = "pending_entry"
         /\ LET trigger_time == db.signals[db.sim_trades[n].signal_id].trigger_candle_time
                next_candle_open == trigger_time + StepMs
            IN  ens' = [ens EXCEPT !["tracker"] =
                           EnsureEnter(trigger_time, next_candle_open + StepMs)]
    /\ UNCHANGED <<pureVars, klines, verified_ranges, syncing, tasks, jobVars, clientVars, rateVars, btVars, trackVars, scanVars>>

\* The process stops and is started again: every coroutine and in-memory
\* cache is gone, an open connection is closed without commit, the tables
\* stay.
Restart ==
    /\ verified_ranges' = [k \in Keys |-> 0]
    /\ syncing' = {}
    /\ tasks' = [k \in TaskIds |-> NoTask]
    /\ ens' = [c \in Callers |-> IdleEns]
    /\ scan' = IdleScan
    /\ db' = CloseWithoutCommit(db, scan.conn)
    /\ UNCHANGED <<pureVars, klines, jobVars, clientVars, rateVars, btVars, trackVars, now, configs, strategy>>

\* Time passes and the next candle closes.
Tick ==
    /\ now + StepMs <= Horizon
    /\ now' = now + StepMs
    /\ UNCHANGED <<pureVars, klines, ensureVars, jobVars, clientVars, rateVars, btVars, trackVars, configs, strategy, db, scan>>

\* ------------------------------------------------------- run_backtest
\* Number of candles of the frame a backtest walks.
MaxBars == 3

\* initial_capital, prices and costs of the runs explored.
InitialCapital == 4
Prices == {1, 2}
CostBps == {0, 5000}
ExecutionModes == {"open_next", "close_current"}

\* PositionState(): flat.
FlatState == [side |-> "flat", entry_price |-> 0, entry_time |-> 0,
              stop_price |-> 0, quantity |-> 0]

NoSignal == [action |-> "none", price |-> 0, stop_price |-> 0]

EntryActions == {"entry_long", "entry_short"}
ExitActions == {"stop_long", "stop_short", "exit_long", "exit_short"}

\* What strategy.on_candle may answer for one bar: nothing or one Signal.
SignalLists ==
    {<< >>} \cup
    {<<[action |-> a, price |-> p, stop_price |-> p]>> :
        a \in EntryActions \cup ExitActions, p \in Prices}

IdleBt == [pc |-> "idle", t |-> 0, equity |-> 0, equity_curve |-> << >>,
           trade_log |-> << >>, state |-> FlatState, pending_entry |-> NoSignal,
           liquidated |-> FALSE, error |-> "none", marks |-> << >>]

BacktestAtRest ==
    /\ bt_df = << >>
    /\ params = [modo_ejecucion |-> "open_next", coste_total_bps |-> 0]
    /\ bt = IdleBt

Abs(x) == IF x < 0 THEN 0 - x ELSE x

\* fee = amount * cost_factor, cost_factor = cost_bps / 10_000.0
Fee(amount, cost_bps) == (Abs(amount) * cost_bps) \div 10000

\* _compute_pnl_no_fees
ComputePnlNoFees(state, exec_price) ==
    IF state.side = "long"
    THEN state.quantity * (exec_price - state.entry_price)
    ELSE state.quantity * (state.entry_price - exec_price)

\* _compute_pnl
ComputePnl(state, exec_price, cost_bps) ==
    ComputePnlNoFees(state, exec_price) - Fee(state.quantity * exec_price, cost_bps)

\* The execution price of an exit or stop Signal (lines 110-115).
ExitExecPrice(sig, state, open_price, close_price, mode) ==
    IF sig.action = "stop_long"
    THEN IF open_price < state.stop_price THEN Min(sig.price, open_price) ELSE sig.price
    ELSE IF sig.action = "stop_short"
    THEN IF open_price > state.stop_price THEN Max(sig.price, open_price) ELSE sig.price
    ELSE IF mode = "close_current" THEN close_price ELSE open_price

\* An entry executed at exec_price with the whole equity (lines 77-100 and
\* 154-164): the position, and the equity left after the fee.
EnterPositionStampedLate(sig, exec_price, equity, open_time) ==
    [side |-> IF sig.action = "entry_long" THEN "long" ELSE "short",
     entry_price |-> exec_price, entry_time |-> open_time + 1,
     stop_price |-> sig.stop_price, quantity |-> equity \div exec_price]
EnterPosition(sig, exec_price, equity, open_time) ==
    [side |-> IF sig.action = "entry_long" THEN "long" ELSE "short",
     entry_price |-> exec_price, entry_time |-> open_time,
     stop_price |-> sig.stop_price, quantity |-> equity \div exec_price]

\* Mark-to-market equity at the close of the bar (lines 168-173).
MarkToMarketRealisedOnly(equity, state, close_price) == equity
MarkToMarket(equity, state, close_price) ==
    IF state.side = "long" THEN equity + state.quantity * (close_price - state.entry_price)
    ELSE IF state.side = "short" THEN equity + state.quantity * (state.entry_price - close_price)
    ELSE equity

\* One run_backtest call (runs share no state): the frame is loaded; fewer
\* than two candles, or a strategy that fails to initialise, end the run
\* with result.error set.
BtCall(frame, mode, cost_bps, init_ok) ==
    /\ bt.pc = "idle"
    /\ bt_df' = frame
    /\ params' = [modo_ejecucion |-> mode, coste_total_bps |-> cost_bps]
    /\ bt' = IF Len(frame) < 2
             THEN [IdleBt EXCEPT !.pc = "returned", !.error = "insufficient"]
             ELSE IF ~init_ok
             THEN [IdleBt EXCEPT !.pc = "returned", !.error = "init_failed"]
             ELSE [IdleBt EXCEPT !.pc = "walk", !.t = 1, !.equity = InitialCapital]
    /\ UNCHANGED <<pureVars, klines, ensureVars, jobVars, clientVars, scanVars, rateVars, trackVars>>

\* One turn of `for t in range(n)` (lines 68-174), t counted from 1.
BtBar(signals) ==
    /\ bt.pc = "walk"
    /\ bt.t <= Len(bt_df)
    /\ LET candle == bt_df[bt.t]
           mode == params.modo_ejecucion
           cost == params.coste_total_bps
           \* lines 74-100: the deferred entry, at this bar's open
           fill == bt.pending_entry.action \in EntryActions /\ mode = "open_next"
           state1 == IF fill
                     THEN EnterPosition(bt.pending_entry, candle.open, bt.equity, bt.t)
                     ELSE bt.state
           equity1 == IF fill THEN bt.equity - Fee(bt.equity, cost) ELSE bt.equity
           pending1 == IF mode = "open_next" THEN NoSignal ELSE bt.pending_entry
           \* lines 106-133: the first Signal is an exit and a position is held
           sig == IF signals = << >> THEN NoSignal ELSE signals[1]
           exits == sig.action \in ExitActions /\ state1.side # "flat"
           exec_price == ExitExecPrice(sig, state1, candle.open, candle.close, mode)
           pnl == ComputePnl(state1, exec_price, cost)
           equity2 == IF exits THEN equity1 + pnl ELSE equity1
           state2 == IF exits THEN FlatState ELSE state1
           log2 == IF exits
                   THEN Append(bt.trade_log,
                               [side |-> state1.side, entry_time |-> state1.entry_time,
                                exit_time |-> bt.t, exit_price |-> exec_price,
                                pnl |-> pnl, exit_reason |-> sig.action])
                   ELSE bt.trade_log
           \* lines 135-144: reached for a Signal that did not close a position
           bankrupt == signals # << >> /\ ~exits /\ equity1 <= 0
           \* lines 147-165
           enters == ~exits /\ state2.side = "flat" /\ sig.action \in EntryActions
           now_entry == enters /\ mode # "open_next"
           state3 == IF now_entry
                     THEN EnterPosition(sig, candle.close, equity2, bt.t)
                     ELSE state2
           equity3 == IF now_entry THEN equity2 - Fee(equity2, cost) ELSE equity2
           pending3 == IF enters /\ mode = "open_next" THEN sig ELSE pending1
       IN  bt' = IF bankrupt
                 THEN [bt EXCEPT !.pc = "returned", !.liquidated = TRUE,
                                 !.equity = equity1, !.state = state1,
                                 !.pending_entry = pending1]
                 ELSE [bt EXCEPT !.t = @ + 1, !.equity = equity3, !.state = state3,
                                 !.pending_entry = pending3, !.trade_log = log2,
                                 !.equity_curve =
                                     Append(@, MarkToMarket(equity3, state3, candle.close)),
                                 !.marks = Append(@, [equity |-> equity3, state |-> state3])]
    /\ UNCHANGED <<pureVars, klines, ensureVars, jobVars, clientVars, scanVars, rateVars, trackVars,
                   bt_df, params>>

\* Lines 176-180: the walk is over and the result returned.
BtReturn ==
    /\ bt.pc = "walk"
    /\ bt.t > Len(bt_df)
    /\ bt' = [bt EXCEPT !.pc = "returned"]
    /\ UNCHANGED <<pureVars, klines, ensureVars, jobVars, clientVars, scanVars, rateVars, trackVars,
                   bt_df, params>>

\* ----------------------------------- live tracker and signal routes
\* The configs whose trades are followed: config k has at most one Signal
\* and one SimTrade, both with id k, on the pair and interval of Key.
TrackConfigIds == {1, 2}

\* SQL NULL, and a column holding v.
NULL == << >>
NotNull(x) == x # NULL

\* The candle the scanner emitted on, and the one whose open is the entry.
TriggerCandle == LastClosedCandleTime(FirstNow, StepMs)
NextCandleOpen(trigger_time) == trigger_time + StepMs

\* The 5 s (5000 ms) grace of the ticker fall-back, scaled.
TICKER_GRACE_MS == 1

\* Columns open and close of the klines rows the upstream serves.
CandleOpen(t) == IF t = NextCandleOpen(TriggerCandle) THEN 4 ELSE 2
CandleClose(t) == 4

\* get_ticker_price: a price, or NULL when the call raises.
TickerPrices == {2, 6}
TickerAnswers == {NULL} \cup {<<p>> : p \in TickerPrices}

\* cost_bps of config 1 (config 2 has none), and what the scanner stored
\* in the trade it emitted.
ConfigCost == 5000
InvestedAmount == 12
Portfolios == {0, 12}
StopTriggerOf(side) == IF side = "long" THEN 3 ELSE 5

\* The rows _create_signal_and_sim_trade inserts for config id.
PendingSignal(id) ==
    [id |-> id, config_id |-> id, trigger_candle_time |-> TriggerCandle,
     status |-> "pending"]
PendingTrade(id, side, portfolio) ==
    [id |-> id, config_id |-> id, signal_id |-> id, side |-> side,
     status |-> "pending_entry", stop_trigger |-> StopTriggerOf(side),
     invested_amount |-> InvestedAmount, portfolio |-> portfolio, fees |-> 0,
     entry_price |-> NULL, entry_time |-> NULL, quantity |-> NULL,
     exit_price |-> NULL, exit_time |-> NULL, exit_reason |-> NULL,
     pnl |-> NULL, pnl_pct |-> NULL]

EmptyTables == [signal_configs |-> << >>, signals |-> << >>, sim_trades |-> << >>,
                notification_log |-> << >>]

\* for interval in INTERVAL_MS (run_live_tracker): the intervals the loop
\* goes through, in the order of the dict, finer first; the trades are on
\* the second, whose step is StepMs.
TrackerIntervals == <<"30m", "1h">>
TrackerStepMs(interval) == IF interval = "1h" THEN StepMs ELSE StepMs \div 2

IdleTrk == [pc |-> "idle", list |-> << >>, i |-> 0, price |-> NULL, now_ms |-> 0,
            entry_price |-> NULL, last_closed |-> 0, interval |-> 0]
\* The log of the tracker: the trades the intrabar pass closed in the
\* current turn of the loop, and per trade and candle how many times
\* on_candle was called for it, counted up to MaxCalls.
NoTrkLog == [stopped |-> {},
             on_candle |-> [c \in TrackConfigIds \X UpstreamOpenTimes |-> 0]]
IdleApi == [pc |-> "idle", op |-> "none", id |-> 0, snap |-> << >>,
            price |-> NULL, status |-> 0]

TrackerAtRest ==
    /\ tables = EmptyTables
    /\ trk = IdleTrk
    /\ last_candle_check = [n \in DOMAIN TrackerIntervals |-> 0]
    /\ trk_log = NoTrkLog
    /\ api = IdleApi

\* _current_candle_open
CurrentCandleOpen(now_ms, step) == (now_ms \div step) * step

\* if _now_ms() >= next_candle_open + 5000
TickerAllowedAlways(now_ms, next_candle_open) == TRUE
TickerAllowed(now_ms, next_candle_open) == now_ms >= next_candle_open + TICKER_GRACE_MS

\* The stop condition of the intrabar pass.
StopTriggered(side, price, stop_trigger) ==
    \/ side = "long" /\ price <= stop_trigger
    \/ side = "short" /\ price >= stop_trigger

\* exec_price = trade["stop_trigger"], whatever the ticker said
StopExecAtTicker(trade, price) == price
StopExecPrice(trade, price) == trade.stop_trigger

\* gross_pnl, by side
GrossPnlOfLong(side, quantity, entry_price, exec_price) ==
    quantity * (exec_price - entry_price)
GrossPnl(side, quantity, entry_price, exec_price) ==
    IF side = "long" THEN quantity * (exec_price - entry_price)
    ELSE quantity * (entry_price - exec_price)

\* pnl_pct = net_pnl / portfolio if portfolio > 0 else 0.0, in percent
PnlPct(net_pnl, portfolio) ==
    IF portfolio > 0 THEN (net_pnl * 100) \div portfolio ELSE 0

\* The unique index idx_notification_dedup; the INSERT that violates it
\* raises, the except clause passes and the transaction goes on.
NotificationKeyOfAnyTrade(event_type, trade_id) == <<event_type, "sim_trade", 0>>
NotificationKey(event_type, trade_id) == <<event_type, "sim_trade", trade_id>>
InsertNotification(log, key) ==
    IF \E n \in 1..Len(log) : log[n] = key THEN log ELSE Append(log, key)

\* UPDATE sim_trades SET entry_price, entry_time, quantity, fees, status =
\* 'open' WHERE id = ?; UPDATE signals SET status = 'active' WHERE id = ?;
\* commit.  snap is the row as the pass read it.
FillTradeOnly(t, snap, entry_price) ==
    LET trade == snap.trade
        next_candle_open == NextCandleOpen(snap.trigger_candle_time)
    IN  [t EXCEPT
            !.sim_trades[trade.id] =
                [@ EXCEPT !.entry_price = <<entry_price>>,
                          !.entry_time = <<next_candle_open>>,
                          !.quantity = <<trade.invested_amount \div entry_price>>,
                          !.fees = Fee(trade.invested_amount, snap.cost_bps),
                          !.status = "open"]]
FillTrade(t, snap, entry_price) ==
    LET trade == snap.trade
        next_candle_open == NextCandleOpen(snap.trigger_candle_time)
    IN  [t EXCEPT
            !.sim_trades[trade.id] =
                [@ EXCEPT !.entry_price = <<entry_price>>,
                          !.entry_time = <<next_candle_open>>,
                          !.quantity = <<trade.invested_amount \div entry_price>>,
                          !.fees = Fee(trade.invested_amount, snap.cost_bps),
                          !.status = "open"],
            !.signals[trade.signal_id].status = "active"]

\* UPDATE sim_trades SET exit_price, exit_time, exit_reason, status =
\* 'closed', pnl, pnl_pct, fees WHERE id = ?; UPDATE signals SET status =
\* 'closed' WHERE id = ?.  trade is the row as the caller read it.
CloseTrade(t, trade, exec_price, exit_time, exit_reason, cost_bps) ==
    LET quantity == trade.quantity[1]
        gross_pnl == GrossPnl(trade.side, quantity, trade.entry_price[1], exec_price)
        exit_fee == Fee(quantity * exec_price, cost_bps)
        net_pnl == gross_pnl - exit_fee
    IN  [t EXCEPT
            !.sim_trades[trade.id] =
                [@ EXCEPT !.exit_price = <<exec_price>>,
                          !.exit_time = <<exit_time>>,
                          !.exit_reason = <<exit_reason>>,
                          !.status = "closed",
                          !.pnl = <<net_pnl>>,
                          !.pnl_pct = <<PnlPct(net_pnl, trade.portfolio)>>,
                          !.fees = trade.fees + exit_fee],
            !.signals[trade.signal_id].status = "closed"]

\* A close by the tracker: the trade, the signal and the notification in
\* one transaction.
CloseAndNotify(t, trade, exec_price, exit_time, exit_reason, cost_bps, event_type) ==
    [CloseTrade(t, trade, exec_price, exit_time, exit_reason, cost_bps) EXCEPT
        !.notification_log = InsertNotification(@, NotificationKey(event_type, trade.id))]

\* SELECT cost_bps FROM signal_configs WHERE id = ?; 0.0 when there is no row.
ConfigCostBps(t, config_id) ==
    IF config_id \in DOMAIN t.signal_configs THEN t.signal_configs[config_id].cost_bps ELSE 0

\* The rows of sim_trades in a status, in id order.
TradesInStatus(t, status) ==
    LET InStatus(row) == row.status = status
    IN  SelectSeq(t.sim_trades, InStatus)

\* ... JOIN signals JOIN signal_configs: the row with the columns joined in.
Joined(t, row) ==
    [trade |-> row,
     trigger_candle_time |-> t.signals[row.signal_id].trigger_candle_time,
     cost_bps |-> ConfigCostBps(t, row.config_id)]
JoinedInStatusOrClosed(t, status) ==
    LET Selected(row) == /\ row.status \in {status, "closed"}
                         /\ row.config_id \in DOMAIN t.signal_configs
        rows == SelectSeq(t.sim_trades, Selected)
    IN  [n \in 1..Len(rows) |-> Joined(t, rows[n])]
JoinedInStatus(t, status) ==
    LET Selected(row) == row.status = status /\ row.config_id \in DOMAIN t.signal_configs
        rows == SelectSeq(t.sim_trades, Selected)
    IN  [n \in 1..Len(rows) |-> Joined(t, rows[n])]

\* --- _fill_pending_entries
\* The fill goes on with the next pending trade, or the pass is over and
\* the loop calls _check_intrabar_stops.
FillNext(frame) ==
    IF frame.i < Len(frame.list)
    THEN [frame EXCEPT !.pc = "fill_ensure", !.i = @ + 1, !.entry_price = NULL]
    ELSE [IdleTrk EXCEPT !.pc = "stops_begin"]

\* Lines 76-94: the pending trades are read.
TrkFillBegin ==
    /\ trk.pc = "idle"
    /\ LET pending == JoinedInStatus(tables, "pending_entry")
       IN  trk' = IF pending = << >>
                  THEN [IdleTrk EXCEPT !.pc = "stops_begin"]
                  ELSE [IdleTrk EXCEPT !.pc = "fill_ensure", !.list = pending, !.i = 1]
    /\ trk_log' = [trk_log EXCEPT !.stopped = {}]
    /\ UNCHANGED <<pureVars, klines, ensureVars, jobVars, clientVars, scanVars, rateVars, btVars,
                   tables, last_candle_check, api>>

\* Lines 96-109: ensure_candles for the trigger candle and the one after.
TrkFillEnsure ==
    /\ trk.pc = "fill_ensure"
    /\ ens["tracker"].pc \in {"idle", "done"}
    /\ LET trigger_time == trk.list[trk.i].trigger_candle_time
           next_candle_open == NextCandleOpen(trigger_time)
       IN  ens' = [ens EXCEPT !["tracker"] =
                      EnsureEnter(trigger_time, next_candle_open + StepMs)]
    /\ trk' = [trk EXCEPT !.pc = "fill_read"]
    /\ UNCHANGED <<pureVars, klines, verified_ranges, syncing, tasks, jobVars, clientVars, scanVars,
                   rateVars, btVars, tables, last_candle_check, trk_log, api>>

\* Lines 111-133: the entry candle is looked up; without it the ticker is
\* asked once the grace has passed, and the trade is left for later before.
TrkFillRead ==
    /\ trk.pc = "fill_read"
    /\ ens["tracker"].pc = "done"
    /\ LET next_candle_open == NextCandleOpen(trk.list[trk.i].trigger_candle_time)
       IN  trk' = IF next_candle_open \in klines
                  THEN [trk EXCEPT !.pc = "fill_write",
                                   !.entry_price = <<CandleOpen(next_candle_open)>>]
                  ELSE IF TickerAllowed(now, next_candle_open)
                  THEN [trk EXCEPT !.pc = "fill_ticker"]
                  ELSE FillNext(trk)
    /\ UNCHANGED <<pureVars, klines, ensureVars, jobVars, clientVars, scanVars, rateVars, btVars,
                   tables, last_candle_check, trk_log, api>>

\* Lines 126-130: get_ticker_price answers, or raises and the trade is skipped.
TrkFillTicker(answer) ==
    /\ trk.pc = "fill_ticker"
    /\ trk' = IF answer = NULL
              THEN FillNext(trk)
              ELSE [trk EXCEPT !.pc = "fill_write", !.entry_price = answer]
    /\ UNCHANGED <<pureVars, klines, ensureVars, jobVars, clientVars, scanVars, rateVars, btVars,
                   tables, last_candle_check, trk_log, api>>

\* Lines 135-155: the trade is opened and its signal activated, one commit.
TrkFillWrite ==
    /\ trk.pc = "fill_write"
    /\ tables' = FillTrade(tables, trk.list[trk.i], trk.entry_price[1])
    /\ trk' = FillNext(trk)
    /\ UNCHANGED <<pureVars, klines, ensureVars, jobVars, clientVars, scanVars, rateVars, btVars,
                   last_candle_check, trk_log, api>>

\* --- _check_intrabar_stops
\* Lines 167-181: the open trades are read.
TrkStopsBegin ==
    /\ trk.pc = "stops_begin"
    /\ LET open_trades == TradesInStatus(tables, "open")
       IN  trk' = IF open_trades = << >>
                  THEN [IdleTrk EXCEPT !.pc = "exits_begin", !.interval = 1]
                  ELSE [IdleTrk EXCEPT !.pc = "stop_ticker", !.list = open_trades]
    /\ UNCHANGED <<pureVars, klines, ensureVars, jobVars, clientVars, scanVars, rateVars, btVars,
                   tables, last_candle_check, trk_log, api>>

\* Lines 183-193: one ticker for the symbol, a failure leaves no price;
\* then the time of the pass is read.
TrkStopTicker(answer) ==
    /\ trk.pc = "stop_ticker"
    /\ trk' = [trk EXCEPT !.pc = "stop_trade", !.price = answer, !.now_ms = now, !.i = 1]
    /\ UNCHANGED <<pureVars, klines, ensureVars, jobVars, clientVars, scanVars, rateVars, btVars,
                   tables, last_candle_check, trk_log, api>>

\* Lines 195-259, one trade of the list: without a price or a trigger it
\* is passed over; a triggered one is closed at its stop_trigger.
TrkStopTrade ==
    /\ trk.pc = "stop_trade"
    /\ LET trade == trk.list[trk.i]
           triggered == /\ trk.price # NULL
                        /\ StopTriggered(trade.side, trk.price[1], trade.stop_trigger)
       IN  /\ tables' =
                IF triggered
                THEN CloseAndNotify(tables, trade, StopExecPrice(trade, trk.price[1]),
                                    trk.now_ms, "stop_intrabar",
                                    ConfigCostBps(tables, trade.config_id), "stop_hit")
                ELSE tables
           /\ trk_log' = IF triggered
                         THEN [trk_log EXCEPT !.stopped = @ \cup {trade.id}]
                         ELSE trk_log
    /\ trk' = IF trk.i < Len(trk.list)
              THEN [trk EXCEPT !.i = @ + 1]
              ELSE [IdleTrk EXCEPT !.pc = "exits_begin", !.interval = 1]
    /\ UNCHANGED <<pureVars, klines, ensureVars, jobVars, clientVars, scanVars, rateVars, btVars,
                   last_candle_check, api>>

\* --- _check_candle_close_exits
ExitVerdicts == {"none", "exit", "stop", "init_error"}

\* The loop over INTERVAL_MS goes on with the interval after the n-th, or
\* is over and the tracker sleeps.
IntervalNext(n) ==
    IF n < Len(TrackerIntervals)
    THEN [IdleTrk EXCEPT !.pc = "exits_begin", !.interval = n + 1]
    ELSE IdleTrk

ExitNext(frame) ==
    IF frame.i < Len(frame.list)
    THEN [frame EXCEPT !.pc = "exit_ensure", !.i = @ + 1]
    ELSE IntervalNext(frame.interval)

\* run_live_tracker lines 491-497 for one interval of the loop, and
\* _check_candle_close_exits lines 277-292: when the interval has a new
\* candle boundary, the open trades, of every interval, are read; each
\* config is a group of its own.
TrkExitsBegin ==
    /\ trk.pc = "exits_begin"
    /\ LET interval == TrackerIntervals[trk.interval]
           current_open == CurrentCandleOpen(now, TrackerStepMs(interval))
           last_checked == last_candle_check[trk.interval]
           open_trades == JoinedInStatus(tables, "open")
       IN  IF current_open > last_checked
           THEN /\ last_candle_check' = [last_candle_check EXCEPT ![trk.interval] = current_open]
                /\ trk' = IF open_trades = << >>
                          THEN IntervalNext(trk.interval)
                          ELSE [IdleTrk EXCEPT !.pc = "exit_ensure", !.interval = trk.interval,
                                               !.list = open_trades, !.i = 1]
           ELSE /\ trk' = IntervalNext(trk.interval)
                /\ UNCHANGED last_candle_check
    /\ UNCHANGED <<pureVars, klines, ensureVars, jobVars, clientVars, scanVars, rateVars, btVars,
                   tables, trk_log, api>>

\* Lines 302-318: the last closed candle and the warm-up window of the group.
TrkExitEnsure ==
    /\ trk.pc = "exit_ensure"
    /\ ens["tracker"].pc \in {"idle", "done"}
    /\ LET last_closed_open == CurrentCandleOpen(now, StepMs) - StepMs
       IN  /\ ens' = [ens EXCEPT !["tracker"] =
                         EnsureEnter(last_closed_open - WARMUP_CANDLES * StepMs,
                                     last_closed_open + StepMs)]
           /\ trk' = [trk EXCEPT !.pc = "exit_trade", !.last_closed = last_closed_open]
    /\ UNCHANGED <<pureVars, klines, verified_ranges, syncing, tasks, jobVars, clientVars, scanVars,
                   rateVars, btVars, tables, last_candle_check, trk_log, api>>

\* Lines 319-468: not ready, a short frame, a missing last candle or a
\* strategy that fails to initialise skip the group; otherwise on_candle is
\* called for the trade on the last closed candle and its first signal
\* closes the trade: an exit at the candle's close, a stop at stop_trigger
\* or at the open that gapped past it.
TrkExitTrade(verdict) ==
    /\ trk.pc = "exit_trade"
    /\ ens["tracker"].pc = "done"
    /\ LET joined == trk.list[trk.i]
           trade == joined.trade
           frame == ExistingOpenTimes(klines,
                        trk.last_closed - WARMUP_CANDLES * StepMs, trk.last_closed + StepMs)
           unevaluated == \/ ~ens["tracker"].ret
                          \/ Cardinality(frame) < 2
                          \/ MaxOf(frame) # trk.last_closed
                          \/ verdict = "init_error"
           skipped == unevaluated \/ verdict = "none"
           call == <<trade.id, trk.last_closed>>
           open_price == CandleOpen(trk.last_closed)
           gapped == \/ trade.side = "long" /\ open_price < trade.stop_trigger
                     \/ trade.side = "short" /\ open_price > trade.stop_trigger
       IN  /\ tables' =
                IF skipped THEN tables
                ELSE IF verdict = "exit"
                THEN CloseAndNotify(tables, trade, CandleClose(trk.last_closed), trk.last_closed,
                                    "exit_signal", joined.cost_bps, "exit_signal")
                ELSE CloseAndNotify(tables, trade,
                                    IF gapped THEN open_price ELSE trade.stop_trigger,
                                    trk.last_closed, "stop_intrabar", joined.cost_bps, "stop_hit")
           /\ trk_log' = IF unevaluated
                         THEN trk_log
                         ELSE [trk_log EXCEPT !.on_candle[call] = Min(@ + 1, MaxCalls)]
    /\ trk' = ExitNext(trk)
    /\ UNCHANGED <<pureVars, klines, ensureVars, jobVars, clientVars, scanVars, rateVars, btVars,
                   last_candle_check, api>>

\* --- signal routes
\* POST /sim-trades/{id}/close, lines 351-361: the trade must be open.
ApiCloseBegin(trade_id) ==
    /\ api.pc \in {"idle", "done"}
    /\ api' = IF /\ trade_id \in DOMAIN tables.sim_trades
                 /\ tables.sim_trades[trade_id].status = "open"
              THEN [IdleApi EXCEPT !.pc = "close_ticker", !.op = "close", !.id = trade_id,
                                   !.snap = <<tables.sim_trades[trade_id]>>]
              ELSE [IdleApi EXCEPT !.pc = "done", !.op = "close", !.id = trade_id,
                                   !.status = 404]
    /\ UNCHANGED <<pureVars, klines, ensureVars, jobVars, clientVars, scanVars, rateVars, btVars,
                   tables, trk, last_candle_check, trk_log>>

\* Lines 363-367: the current price, or 503.
ApiCloseTicker(answer) ==
    /\ api.pc = "close_ticker"
    /\ api' = IF answer = NULL
              THEN [api EXCEPT !.pc = "done", !.status = 503]
              ELSE [api EXCEPT !.pc = "close_write", !.price = answer]
    /\ UNCHANGED <<pureVars, klines, ensureVars, jobVars, clientVars, scanVars, rateVars, btVars,
                   tables, trk, last_candle_check, trk_log>>

\* Lines 369-410: the trade is closed at the current price, reason manual.
ApiCloseWrite ==
    /\ api.pc = "close_write"
    /\ LET trade == api.snap[1]
       IN  tables' = CloseTrade(tables, trade, api.price[1], now, "manual",
                                ConfigCostBps(tables, trade.config_id))
    /\ api' = [api EXCEPT !.pc = "done", !.status = 200]
    /\ UNCHANGED <<pureVars, klines, ensureVars, jobVars, clientVars, scanVars, rateVars, btVars,
                   trk, last_candle_check, trk_log>>

\* The foreign keys of signals and sim_trades on signal_configs(id), with
\* PRAGMA foreign_keys=ON: a config that a row refers to cannot be deleted.
ForeignKeyNotEnforced(t, config_id) == FALSE
ForeignKeyViolation(t, config_id) ==
    \/ \E n \in DOMAIN t.signals : t.signals[n].config_id = config_id
    \/ \E n \in DOMAIN t.sim_trades : t.sim_trades[n].config_id = config_id

\* delete_signal_config lines 206-214: the two UPDATEs before the DELETE.
CascadeClose(t, config_id) ==
    [t EXCEPT
        !.sim_trades = [n \in DOMAIN @ |->
            IF @[n].config_id = config_id /\ @[n].status \in {"pending_entry", "open"}
            THEN [@[n] EXCEPT !.status = "closed", !.exit_reason = <<"config_deleted">>]
            ELSE @[n]],
        !.signals = [n \in DOMAIN @ |->
            IF @[n].config_id = config_id /\ @[n].status \in {"pending", "active"}
            THEN [@[n] EXCEPT !.status = "closed"]
            ELSE @[n]]]

\* DELETE FROM signal_configs WHERE id = ?
DeleteConfig(t, config_id) ==
    [t EXCEPT !.signal_configs = [c \in DOMAIN @ \ {config_id} |-> @[c]]]

\* DELETE /signals/configs/{id}: one connection; when the DELETE raises,
\* the connection is closed without commit and the request ends in 500.
ApiDeleteConfig(config_id) ==
    /\ api.pc \in {"idle", "done"}
    /\ LET conn == CascadeClose(tables, config_id)
           answer(status) == [IdleApi EXCEPT !.pc = "done", !.op = "delete",
                                             !.id = config_id, !.status = status]
       IN  IF config_id \notin DOMAIN tables.signal_configs
           THEN /\ api' = answer(404)
                /\ UNCHANGED tables
           ELSE IF ForeignKeyViolation(conn, config_id)
           THEN /\ api' = answer(500)
                /\ tables' = CloseWithoutCommit(tables, conn)
           ELSE /\ api' = answer(200)
                /\ tables' = DeleteConfig(conn, config_id)
    /\ UNCHANGED <<pureVars, klines, ensureVars, jobVars, clientVars, scanVars, rateVars, btVars,
                   trk, last_candle_check, trk_log>>

\* Wall-clock time passes, up to the close of the entry candle.
WallTick ==
    /\ now < NextCandleOpen(TriggerCandle) + StepMs
    /\ now' = now + 1
    /\ UNCHANGED <<pureVars, klines, ensureVars, jobVars, clientVars, rateVars, btVars, trackVars,
                   configs, strategy, db, scan>>

\* ------------------------ _expected_open_times, _upsert_candles, sizing
\* Largest start_ms and end_ms of the _expected_open_times calls explored.
MaxMs == 6
Stamps == (0 - 3)..MaxMs

\* INTERVAL_MS.get(interval): two known intervals and one that is not.
Intervals == {"1h", "2h", "7x"}
IntervalMs(interval) ==
    IF interval = "1h" THEN <<StepMs>>
    ELSE IF interval = "2h" THEN <<2 * StepMs>>
    ELSE NULL

\* _expected_open_times: ValueError for an unknown interval, else the list.
ExpectedOpenTimesOf(start_ms, end_ms, interval) ==
    IF IntervalMs(interval) = NULL
    THEN [raised |-> "ValueError", times |-> << >>]
    ELSE [raised |-> "none",
          times |-> ExpectedOpenTimes(start_ms, end_ms, IntervalMs(interval)[1])]

\* Rows of table klines with one of their value columns.
Symbols == {"BTCUSDT", "ETHUSDT"}
Candles ==
    {c \in [symbol : Symbols, interval : {"1h"}, open_time : {0, StepMs}, close : {1, 2}] :
        c.symbol = "BTCUSDT" \/ c.open_time = 0}
CandleKeys == {<<c.symbol, c.interval, c.open_time>> : c \in Candles}
KeyOf(c) == <<c.symbol, c.interval, c.open_time>>

\* The lists of candles one _upsert_candles call is given.
MaxBatch == 2
Batches == UNION {[1..n -> Candles] : n \in 0..MaxBatch}

\* PRIMARY KEY (symbol, interval, open_time)
PrimaryKeyNone(row, c) == FALSE
PrimaryKeyConflict(row, c) == KeyOf(row) = KeyOf(c)

\* INSERT OR REPLACE INTO klines: the conflicting row is deleted, the new
\* one inserted.
InsertOrReplace(table, c) ==
    {row \in table : ~PrimaryKeyConflict(row, c)} \cup {c}

\* executemany: one INSERT OR REPLACE per candle, in list order.
RECURSIVE ExecuteMany(_, _)
ExecuteMany(table, candles) ==
    IF candles = << >> THEN table
    ELSE ExecuteMany(InsertOrReplace(table, Head(candles)), Tail(candles))

\* config["portfolio"], config["invested_amount"], config["leverage"]
SizingPortfolios == {0 - 2, 0, 2, 4}
SizingAmounts == {NULL, <<0>>, <<4>>, <<8>>}
SizingLeverages == {NULL, <<1>>, <<2>>}
SizingConfigs ==
    [portfolio : SizingPortfolios, invested_amount : SizingAmounts,
     leverage : SizingLeverages]

\* _create_signal_and_sim_trade lines 104-116: the portfolio,
\* invested_amount and leverage columns of the sim_trades row.
ResolveSizingUnlevered(config) ==
    [portfolio |-> config.portfolio, invested_amount |-> config.portfolio, leverage |-> 1]
ResolveSizing(config) ==
    IF config.invested_amount # NULL
    THEN [portfolio |-> config.portfolio,
          invested_amount |-> config.invested_amount[1],
          leverage |-> IF config.portfolio > 0
                       THEN config.invested_amount[1] \div config.portfolio
                       ELSE 1]
    ELSE IF config.leverage # NULL
    THEN [portfolio |-> config.portfolio,
          invested_amount |-> config.portfolio * config.leverage[1],
          leverage |-> config.leverage[1]]
    ELSE [portfolio |-> config.portfolio, invested_amount |-> config.portfolio,
          leverage |-> 1]

NoCall == [op |-> "none"]
NoStrategy == [name |-> "none"]

PureAtRest ==
    /\ fn = NoCall
    /\ candle_rows = {}
    /\ upserted = [k \in CandleKeys |-> NULL]
    /\ strat = NoStrategy

\* One call of _expected_open_times.
CallExpectedOpenTimes(start_ms, end_ms, interval) ==
    /\ fn' = [op |-> "_expected_open_times", start_ms |-> start_ms, end_ms |-> end_ms,
              interval |-> interval,
              result |-> ExpectedOpenTimesOf(start_ms, end_ms, interval)]
    /\ UNCHANGED <<klines, ensureVars, jobVars, clientVars, scanVars, rateVars, btVars,
                   trackVars, candle_rows, upserted, strat>>

\* One call of _upsert_candles: nothing for an empty list, else executemany
\* and commit.  upserted keeps, for each key, what was last upserted.
CallUpsertCandles(candles) ==
    /\ candle_rows' = ExecuteMany(candle_rows, candles)
    /\ upserted' = [k \in CandleKeys |->
          LET at == {n \in 1..Len(candles) : KeyOf(candles[n]) = k}
          IN  IF at = {} THEN upserted[k]
              ELSE <<candles[CHOOSE n \in at : \A j \in at : j <= n].close>>]
    /\ fn' = [op |-> "_upsert_candles", candles |-> candles, ret |-> Len(candles)]
    /\ UNCHANGED <<klines, ensureVars, jobVars, clientVars, scanVars, rateVars, btVars,
                   trackVars, strat>>

\* The sizing of one emitted SimTrade.
CallResolveSizing(config) ==
    /\ fn' = [op |-> "_create_signal_and_sim_trade", config |-> config,
              trade |-> ResolveSizing(config)]
    /\ UNCHANGED <<klines, ensureVars, jobVars, clientVars, scanVars, rateVars, btVars,
                   trackVars, candle_rows, upserted, strat>>

\* ------------------------------------------ strategies: init and on_candle
\* Longest candle frame given to Strategy.init.
MaxFrame == 3

\* Rows of the candle frame: high, low, close with low <= close <= high.
BarPrices == {2, 4}
Bars ==
    {b \in [high : BarPrices, low : BarPrices, close : BarPrices] :
        b.low <= b.close /\ b.close <= b.high}
CandleFrames == UNION {[1..n -> Bars] : n \in 1..MaxFrame}

\* stop_pct and reversal_pct, in percent.
StopPct == 50
ReversalPct == 50

BreakoutParams ==
    [N_entrada : {1, 2}, M_salida : {1, 2}, stop_pct : {StopPct},
     habilitar_long : BOOLEAN, habilitar_short : BOOLEAN]
SupportResistanceParams ==
    [reversal_pct : {ReversalPct}, stop_pct : {StopPct},
     habilitar_long : BOOLEAN, habilitar_short : BOOLEAN]

\* PositionState: flat with the default stop_price, or in position.
StopPrices == {1, 2, 4}
PositionStates ==
    {[side |-> "flat", stop_price |-> 0]}
        \cup [side : {"long", "short"}, stop_price : StopPrices]

MinOf(S) == CHOOSE x \in S : \A y \in S : x <= y

\* candles["high"]: a Series, NaN is NULL; index t of the source is t + 1.
Column(candles, name) == [t \in 1..Len(candles) |-> <<candles[t][name]>>]

\* Series.shift(1)
ShiftNone(series) == series
Shift(series) == [t \in 1..Len(series) |-> IF t = 1 THEN NULL ELSE series[t - 1]]

\* Series.rolling(n) at position t: the window's values, NaN unless the
\* window holds n values that are not NaN.
RollingWindowPartial(series, n, t) ==
    LET valid == {j \in Max(1, t - n + 1)..t : series[j] # NULL}
    IN  IF valid = {} THEN NULL ELSE <<{series[j][1] : j \in valid}>>
RollingWindow(series, n, t) ==
    IF t < n \/ \E j \in (t - n + 1)..t : series[j] = NULL
    THEN NULL
    ELSE <<{series[j][1] : j \in (t - n + 1)..t}>>

RollingMax(series, n) ==
    [t \in 1..Len(series) |->
        IF RollingWindow(series, n, t) = NULL THEN NULL
        ELSE <<MaxOf(RollingWindow(series, n, t)[1])>>]
RollingMin(series, n) ==
    [t \in 1..Len(series) |->
        IF RollingWindow(series, n, t) = NULL THEN NULL
        ELSE <<MinOf(RollingWindow(series, n, t)[1])>>]

\* BreakoutStrategy.init
BreakoutInit(prm, candles) ==
    [name |-> "breakout", params |-> prm, candles |-> candles,
     max_prev |-> RollingMax(Shift(Column(candles, "high")), prm.N_entrada),
     min_prev |-> RollingMin(Shift(Column(candles, "low")), prm.N_entrada),
     min_exit |-> RollingMin(Shift(Column(candles, "low")), prm.M_salida),
     max_exit |-> RollingMax(Shift(Column(candles, "high")), prm.M_salida)]

\* _compute_zigzag: one pass of the loop body for bar (h, low_t).
ZigzagStep(z, h, low_t, reversal_pct) ==
    LET moved ==
            IF z.direction = "up"
            THEN LET current_high == Max(h, z.current_high)
                 IN  IF current_high > 0
                        /\ low_t * 100 <= current_high * (100 - reversal_pct)
                     THEN [z EXCEPT !.current_high = current_high,
                                    !.confirmed_resistance = <<current_high>>,
                                    !.direction = "down",
                                    !.current_low = low_t]
                     ELSE [z EXCEPT !.current_high = current_high]
            ELSE LET current_low == Min(low_t, z.current_low)
                 IN  IF current_low > 0
                        /\ h * 100 >= current_low * (100 + reversal_pct)
                     THEN [z EXCEPT !.current_low = current_low,
                                    !.confirmed_support = <<current_low>>,
                                    !.direction = "up",
                                    !.current_high = h]
                     ELSE [z EXCEPT !.current_low = current_low]
    IN  [moved EXCEPT !.last_support = Append(@, moved.confirmed_support),
                      !.last_resistance = Append(@, moved.confirmed_resistance)]

RECURSIVE ZigzagLoop(_, _, _, _)
ZigzagLoop(z, candles, t, reversal_pct) ==
    IF t > Len(candles) THEN z
    ELSE ZigzagLoop(ZigzagStep(z, candles[t].high, candles[t].low, reversal_pct),
                    candles, t + 1, reversal_pct)

\* _compute_zigzag lines 62-67: the pass's variables before the loop.
ZigzagStartDown(candles) ==
    [direction |-> "down", current_high |-> candles[1].high,
     current_low |-> candles[1].low, confirmed_support |-> NULL,
     confirmed_resistance |-> NULL, last_support |-> << >>,
     last_resistance |-> << >>]
ZigzagStart(candles) ==
    [direction |-> "up", current_high |-> candles[1].high,
     current_low |-> candles[1].low, confirmed_support |-> NULL,
     confirmed_resistance |-> NULL, last_support |-> << >>,
     last_resistance |-> << >>]

ComputeZigzag(candles, reversal_pct) ==
    ZigzagLoop(ZigzagStart(candles), candles, 1, reversal_pct)

\* SupportResistanceStrategy.init
SupportResistanceInit(prm, candles) ==
    [name |-> "support_resistance", params |-> prm, candles |-> candles,
     last_support |-> ComputeZigzag(candles, prm.reversal_pct).last_support,
     last_resistance |-> ComputeZigzag(candles, prm.reversal_pct).last_resistance]

Signal(action, price, stop_price) ==
    [action |-> action, price |-> price, stop_price |-> stop_price]

\* The intrabar stop tests of on_candle.
StopLongHitOnClose(candle, state) == candle.close <= state.stop_price
StopLongHit(candle, state) == candle.low <= state.stop_price
StopShortHit(candle, state) == candle.high >= state.stop_price

\* BreakoutStrategy.on_candle
BreakoutOnCandle(self, t, candle, state) ==
    LET max_prev == self.max_prev[t + 1]
        min_prev == self.min_prev[t + 1]
        min_exit == self.min_exit[t + 1]
        max_exit == self.max_exit[t + 1]
    IN  IF max_prev = NULL \/ min_prev = NULL \/ min_exit = NULL \/ max_exit = NULL
        THEN << >>
        ELSE IF state.side = "long" /\ StopLongHit(candle, state)
        THEN <<Signal("stop_long", state.stop_price, 0)>>
        ELSE IF state.side = "long" /\ candle.close < min_exit[1]
        THEN <<Signal("exit_long", candle.close, 0)>>
        ELSE IF state.side = "short" /\ StopShortHit(candle, state)
        THEN <<Signal("stop_short", state.stop_price, 0)>>
        ELSE IF state.side = "short" /\ candle.close > max_exit[1]
        THEN <<Signal("exit_short", candle.close, 0)>>
        ELSE IF state.side = "flat" /\ self.params.habilitar_long
                /\ candle.close > max_prev[1]
        THEN <<Signal("entry_long", candle.close,
                      (min_prev[1] * (100 - self.params.stop_pct)) \div 100)>>
        ELSE IF state.side = "flat" /\ self.params.habilitar_short
                /\ candle.close < min_prev[1]
        THEN <<Signal("entry_short", candle.close,
                      (max_prev[1] * (100 + self.params.stop_pct)) \div 100)>>
        ELSE << >>

\* SupportResistanceStrategy.on_candle
SupportResistanceOnCandle(self, t, candle, state) ==
    LET support    == self.last_support[t + 1]
        resistance == self.last_resistance[t + 1]
    IN  IF support = NULL \/ resistance = NULL
        THEN << >>
        ELSE IF state.side = "long" /\ StopLongHit(candle, state)
        THEN <<Signal("stop_long", state.stop_price, 0)>>
        ELSE IF state.side = "long" /\ candle.close < support[1]
        THEN <<Signal("exit_long", candle.close, 0)>>
        ELSE IF state.side = "short" /\ StopShortHit(candle, state)
        THEN <<Signal("stop_short", state.stop_price, 0)>>
        ELSE IF state.side = "short" /\ candle.close > resistance[1]
        THEN <<Signal("exit_short", candle.close, 0)>>
        ELSE IF state.side = "flat" /\ self.params.habilitar_long
                /\ candle.close > resistance[1]
        THEN <<Signal("entry_long", candle.close,
                      (support[1] * (100 - self.params.stop_pct)) \div 100)>>
        ELSE IF state.side = "flat" /\ self.params.habilitar_short
                /\ candle.close < support[1]
        THEN <<Signal("entry_short", candle.close,
                      (resistance[1] * (100 + self.params.stop_pct)) \div 100)>>
        ELSE << >>

\* strategy.on_candle(t, candle, state) of either strategy.
OnCandleOf(self, t, candle, state) ==
    IF self.name = "breakout" THEN BreakoutOnCandle(self, t, candle, state)
    ELSE SupportResistanceOnCandle(self, t, candle, state)

\* strategy.init(params, df) on a fresh instance.
StrategyInit(instance) ==
    /\ strat = NoStrategy
    /\ strat' = instance
    /\ fn' = [op |-> "init"]
    /\ UNCHANGED <<klines, ensureVars, jobVars, clientVars, scanVars, rateVars, btVars,
                   trackVars, candle_rows, upserted>>

\* strategy.on_candle(t, df.iloc[t], state)
OnCandle(t, state) ==
    /\ strat # NoStrategy
    /\ t < Len(strat.candles)
    /\ fn' = [op |-> "on_candle", t |-> t, state |-> state,
              signals |-> OnCandleOf(strat, t, strat.candles[t + 1], state)]
    /\ UNCHANGED <<klines, ensureVars, jobVars, clientVars, scanVars, rateVars, btVars,
                   trackVars, candle_rows, upserted, strat>>

\* ------------------------------------------------------- specifications
InitJob ==
    /\ PureAtRest
    /\ TrackerAtRest
    /\ BacktestAtRest
    /\ RateAtRest
    /\ klines \in SUBSET UpstreamOpenTimes
    /\ EnsureAtRest
    /\ JobsAtRest
    /\ ClientAtRest
    /\ ScanAtRest

NextJob ==
    \/ StartDownload
    \/ JobLoad
    \/ JobMarkRunning
    \/ JobPlan
    \/ JobCheckCancel
    \/ JobBatch
    \/ JobFinal
    \/ \E j \in JobIds \cup {MissingJobId} : CancelJob(j)
    \/ CancelRespond

SpecJob == InitJob /\ [][NextJob]_vars

\* The event loop resumes the job task whenever its await has completed.
JobSteps ==
    JobLoad \/ JobMarkRunning \/ JobPlan \/ JobCheckCancel \/ JobBatch \/ JobFinal
SpecJobLive == SpecJob /\ WF_vars(JobSteps)

InitEnsure ==
    /\ PureAtRest
    /\ TrackerAtRest
    /\ BacktestAtRest
    /\ RateAtRest
    /\ klines \in SUBSET UpstreamOpenTimes
    /\ EnsureAtRest
    /\ JobsAtRest
    /\ ClientAtRest
    /\ ScanAtRest

NextEnsure ==
    \/ \E c \in Callers : EnsureCall(c)
    \/ \E c \in Callers : EnsureCount(c)
    \/ \E c \in Callers : EnsureHasLast(c)
    \/ \E c \in Callers : EnsureDecide(c)
    \/ \E k \in TaskIds : SyncStart(k)
    \/ \E k \in TaskIds : SyncBatch(k)
    \/ \E k \in TaskIds : SyncVerify(k)
    \/ \E k \in TaskIds : SyncUnexpectedError(k)

SpecEnsure == InitEnsure /\ [][NextEnsure]_vars

\* The event loop resumes every task whose await has completed: each step
\* of a sync task that stays enabled is eventually taken (every database
\* call and every get_klines call returns or raises).
SyncSteps(k) == SyncStart(k) \/ SyncBatch(k) \/ SyncVerify(k)
\* Both callers ask for one fixed window again and again, the upstream
\* answers every request, and no database call fails; every call and every
\* task is resumed by the event loop.
NextRepeat ==
    \/ \E c \in Callers : EnsureCallFixed(c)
    \/ \E c \in Callers : EnsureCount(c)
    \/ \E c \in Callers : EnsureHasLast(c)
    \/ \E c \in Callers : EnsureDecide(c)
    \/ \E k \in TaskIds : SyncStart(k)
    \/ \E k \in TaskIds : SyncBatchAnswered(k)
    \/ \E k \in TaskIds : SyncVerify(k)

EnsureSteps(c) ==
    EnsureCallFixed(c) \/ EnsureCount(c) \/ EnsureHasLast(c) \/ EnsureDecide(c)
SyncStepsAnswered(k) == SyncStart(k) \/ SyncBatchAnswered(k) \/ SyncVerify(k)

SpecRepeat ==
    /\ InitEnsure
    /\ [][NextRepeat]_vars
    /\ \A c \in Callers : WF_vars(EnsureSteps(c))
    /\ \A k \in TaskIds : WF_vars(SyncStepsAnswered(k))

\* The store the fair runs start from: two gaps lying apart.
InitEnsureLive ==
    /\ InitEnsure
    /\ klines = {0, 2 * StepMs}
SpecEnsureLive ==
    /\ InitEnsureLive
    /\ [][NextEnsure]_vars
    /\ \A k \in TaskIds : WF_vars(SyncSteps(k))

InitClient ==
    /\ PureAtRest
    /\ TrackerAtRest
    /\ BacktestAtRest
    /\ RateAtRest
    /\ klines = {}
    /\ EnsureAtRest
    /\ JobsAtRest
    /\ ClientAtRest
    /\ ScanAtRest

NextClient ==
    \/ KlCall
    \/ \E o \in Outcomes : KlAttempt(o)
    \/ KlExhausted

SpecClient == InitClient /\ [][NextClient]_vars

\* The store the scanner starts with: empty, or holding every candle that
\* has closed.
InitScan ==
    /\ PureAtRest
    /\ TrackerAtRest
    /\ BacktestAtRest
    /\ RateAtRest
    /\ klines \in {{}, {t \in UpstreamOpenTimes : t < FirstNow}}
    /\ EnsureAtRest
    /\ JobsAtRest
    /\ ClientAtRest
    /\ now = FirstNow
    /\ configs = [c \in ConfigIds |-> [last_processed_candle |-> 0]]
    /\ strategy \in [ScanCandles -> Verdicts]
    /\ db = EmptyDb
    /\ scan = IdleScan

NextScan ==
    \/ \E id \in ConfigIds, lp \in {0} \cup UpstreamOpenTimes : ScanBegin(id, lp)
    \/ ScanEnsured
    \/ ScanLoad
    \/ \E id \in ConfigIds : ScanInsertSignal(id)
    \/ ScanInsertTrade
    \/ ScanCommit
    \/ \E id \in ConfigIds : ScanWatermark(id)
    \/ TrackerEnsure
    \/ \E c \in Callers : EnsureCount(c)
    \/ \E c \in Callers : EnsureHasLast(c)
    \/ \E c \in Callers : EnsureDecide(c)
    \/ \E k \in TaskIds : SyncStart(k)
    \/ \E k \in TaskIds : SyncBatch(k)
    \/ \E k \in TaskIds : SyncVerify(k)
    \/ \E k \in TaskIds : SyncUnexpectedError(k)
    \/ Restart
    \/ Tick

SpecScan == InitScan /\ [][NextScan]_vars

InitRate ==
    /\ PureAtRest
    /\ TrackerAtRest
    /\ BacktestAtRest
    /\ klines = {}
    /\ EnsureAtRest
    /\ JobsAtRest
    /\ ClientAtRest
    /\ ScanAtRest
    /\ RateAtRest

NextRate ==
    \/ \E c \in RateCallers : GkCall(c)
    \/ \E c \in RateCallers : GkLoop(c)
    \/ \E c \in RateCallers : GkExhausted(c)
    \/ \E c \in RateCallers : GkWaitBlocked(c)
    \/ \E c \in RateCallers : GkWaitBackoff(c)
    \/ \E c \in RateCallers : GkPacing(c)
    \/ \E c \in RateCallers : GkSend(c)
    \/ \E c \in RateCallers, o \in Outcomes, r \in RetryAfters : GkRespond(c, o, r)
    \/ \E c \in RateCallers : GkWake(c)
    \/ ClockTick

SpecRate == InitRate /\ [][NextRate]_vars

Frames ==
    UNION {[1..n -> [open : Prices, close : Prices]] : n \in 0..MaxBars}

InitBacktest ==
    /\ PureAtRest
    /\ TrackerAtRest
    /\ klines = {}
    /\ EnsureAtRest
    /\ JobsAtRest
    /\ ClientAtRest
    /\ ScanAtRest
    /\ RateAtRest
    /\ BacktestAtRest

NextBacktest ==
    \/ \E frame \in Frames, mode \in ExecutionModes, c \in CostBps, ok \in BOOLEAN :
          BtCall(frame, mode, c, ok)
    \/ \E signals \in SignalLists : BtBar(signals)
    \/ BtReturn

SpecBacktest == InitBacktest /\ [][NextBacktest]_vars

\* Runs over the frames of MaxBars + 1 candles, long enough for a second
\* round trip (two rows of the trade_log); each candle closes at its open.
LongFrames ==
    {[t \in 1..(MaxBars + 1) |-> [open |-> price[t], close |-> price[t]]] :
        price \in [1..(MaxBars + 1) -> Prices]}

NextBacktestLong ==
    \/ \E frame \in LongFrames, mode \in ExecutionModes, c \in CostBps :
          BtCall(frame, mode, c, TRUE)
    \/ \E signals \in SignalLists : BtBar(signals)
    \/ BtReturn

SpecBacktestLong == InitBacktest /\ [][NextBacktestLong]_vars

\* The database after the scanner emitted on TriggerCandle for config 1, as
\* a freshly started process finds it: a long of a config with a portfolio
\* or a short of one without; config 2 has no signal yet.
TrackSetups ==
    {[signal_configs |-> [c \in TrackConfigIds |->
                             [cost_bps |-> IF c = 1 THEN ConfigCost ELSE 0]],
      signals |-> <<PendingSignal(1)>>,
      sim_trades |-> <<PendingTrade(1, sized[1], sized[2])>>,
      notification_log |-> << >>] :
        sized \in {pair \in {"long", "short"} \X Portfolios :
                     (pair[1] = "long") <=> (pair[2] > 0)}}

InitTrack ==
    /\ klines \in {{t \in UpstreamOpenTimes : t <= TriggerCandle},
                   {t \in UpstreamOpenTimes : t <= NextCandleOpen(TriggerCandle)}}
    /\ EnsureAtRest
    /\ JobsAtRest
    /\ ClientAtRest
    /\ ScanAtRest
    /\ RateAtRest
    /\ BacktestAtRest
    /\ PureAtRest
    /\ tables \in TrackSetups
    /\ trk = IdleTrk
    /\ last_candle_check = [n \in DOMAIN TrackerIntervals |-> 0]
    /\ trk_log = NoTrkLog
    /\ api = IdleApi

NextTrack ==
    \/ TrkFillBegin
    \/ TrkFillEnsure
    \/ TrkFillRead
    \/ \E a \in TickerAnswers : TrkFillTicker(a)
    \/ TrkFillWrite
    \/ TrkStopsBegin
    \/ \E a \in TickerAnswers : TrkStopTicker(a)
    \/ TrkStopTrade
    \/ TrkExitsBegin
    \/ TrkExitEnsure
    \/ \E v \in ExitVerdicts : TrkExitTrade(v)
    \/ \E id \in TrackConfigIds : ApiCloseBegin(id)
    \/ \E a \in TickerAnswers : ApiCloseTicker(a)
    \/ ApiCloseWrite
    \/ \E id \in TrackConfigIds : ApiDeleteConfig(id)
    \/ EnsureCount("tracker")
    \/ EnsureHasLast("tracker")
    \/ EnsureDecide("tracker")
    \/ \E k \in TaskIds : SyncStart(k)
    \/ \E k \in TaskIds : SyncBatch(k)
    \/ \E k \in TaskIds : SyncVerify(k)
    \/ WallTick

SpecTrack == InitTrack /\ [][NextTrack]_vars

InitPure ==
    /\ klines = {}
    /\ EnsureAtRest
    /\ JobsAtRest
    /\ ClientAtRest
    /\ ScanAtRest
    /\ RateAtRest
    /\ BacktestAtRest
    /\ TrackerAtRest
    /\ PureAtRest

NextPure ==
    \/ \E s \in Stamps, e \in Stamps, i \in Intervals : CallExpectedOpenTimes(s, e, i)
    \/ \E candles \in Batches : CallUpsertCandles(candles)
    \/ \E config \in SizingConfigs : CallResolveSizing(config)

SpecPure == InitPure /\ [][NextPure]_vars

InitStrategy == InitPure

NextStrategy ==
    \/ \E prm \in BreakoutParams, candles \in CandleFrames :
          StrategyInit(BreakoutInit(prm, candles))
    \/ \E prm \in SupportResistanceParams, candles \in CandleFrames :
          StrategyInit(SupportResistanceInit(prm, candles))
    \/ \E t \in 0..(MaxFrame - 1), state \in PositionStates : OnCandle(t, state)

SpecStrategy == InitStrategy /\ [][NextStrategy]_vars

\* ================================================================= claims

\* The Signal rows of a candle, and the SimTrade rows that reference them.
SignalsFor(t) == {n \in 1..Len(db.signals) : db.signals[n].trigger_candle_time = t}
TradesFor(t) ==
    {n \in 1..Len(db.sim_trades) :
        \E s \in SignalsFor(t) : db.sim_trades[n].signal_id = db.signals[s].id}

\* C1 as stated: after scan_config has run again for a last-closed candle
\* that already had a Signal, there is still one Signal and one SimTrade
\* for the candle and the watermark equals the candle.
C1_RerunLeavesWatermarkAtCandle ==
    (scan.pc = "done" /\ scan.had_signal /\ scan.outcome # "raised")
        => /\ Cardinality(SignalsFor(scan.last_closed)) = 1
           /\ Cardinality(TradesFor(scan.last_closed)) = 1
           /\ \A id \in ConfigIds : configs[id].last_processed_candle = scan.last_closed

\* C1, amended: a scan_config run for a last-closed candle that already has
\* a Signal adds no Signal and no SimTrade row; when it ends having reached
\* the watermark write the watermark equals that candle, and when it ends
\* skipped (ensure_candles not ready, frame or strategy check failed) it
\* leaves the watermark as it was.
C1_RerunIdempotent ==
    [][(scan.had_signal /\ scan.pc \notin {"idle", "done"})
          => /\ db' = db
             /\ (scan'.pc = "done" /\ scan'.outcome = "evaluated")
                    => \A id \in ConfigIds :
                           configs'[id].last_processed_candle = scan.last_closed
             /\ (scan'.pc # "done" \/ scan'.outcome # "evaluated")
                    => configs' = configs]_vars

C1_Witness ==
    /\ scan.pc = "done"
    /\ scan.had_signal
    /\ scan.emitted = "duplicate"
    /\ scan.outcome = "evaluated"
    /\ Cardinality(SignalsFor(scan.last_closed)) = 1
    /\ Cardinality(TradesFor(scan.last_closed)) = 1
    /\ \A id \in ConfigIds : configs[id].last_processed_candle = scan.last_closed

\* C2: there is at most one Signal row per (config_id, trigger_candle_time),
\* and an emit whose key is already used returns None and adds neither a
\* Signal nor a SimTrade row.
C2_OneSignalPerKey ==
    /\ [](\A a, b \in 1..Len(db.signals) :
              (/\ db.signals[a].config_id = db.signals[b].config_id
               /\ db.signals[a].trigger_candle_time = db.signals[b].trigger_candle_time)
                  => a = b)
    /\ [][(/\ scan.pc = "insert_signal"
           /\ scan'.pc \notin {"insert_signal", "idle"}
           /\ \E id \in ConfigIds : SignalExists(db.signals, id, scan.last_closed))
              => /\ scan'.emitted = "duplicate"
                 /\ scan'.signal_id = 0
                 /\ scan'.conn = EmptyDb
                 /\ db' = db]_vars

C2_Witness ==
    /\ scan.pc = "watermark"
    /\ scan.emitted = "duplicate"
    /\ Len(db.signals) = 1
    /\ Len(db.sim_trades) = 1

\* C3: in every committed state each Signal has exactly one SimTrade that
\* references it and each SimTrade references an existing Signal; when an
\* insert of the emission fails, no row of it is persisted.
SignalsAndTradesPaired ==
    /\ \A s \in 1..Len(db.signals) :
           Cardinality({n \in 1..Len(db.sim_trades) :
                           db.sim_trades[n].signal_id = db.signals[s].id}) = 1
    /\ \A n \in 1..Len(db.sim_trades) :
           \E s \in 1..Len(db.signals) : db.signals[s].id = db.sim_trades[n].signal_id

C4_TrueMeansWindowPresent ==
    \A c \in Callers :
        (ens[c].pc = "done" /\ ens[c].ret)
            => SeqToSet(ExpectedOpenTimes(ens[c].start_ms, ens[c].end_ms, StepMs))
                   \subseteq klines

\* C5: at any time at most one background sync task is in flight for the
\* pair, for every interleaving of the scanner's and the tracker's
\* ensure_candles calls at their suspension points.
C5_AtMostOneSyncInFlight ==
    Cardinality({k \in TaskIds : tasks[k].pc # "unused"}) <= 1

\* C6: when run_download_job ends with status completed and no get_klines
\* call failed, every expected open_time of [start, end) is in the store,
\* whatever the initial pattern of gaps.
C6_CompletedJobFillsEveryGap ==
    \A j \in DOMAIN jobs :
        (jobs[j].status = "completed" /\ ~jobTask.fetch_error)
            => SeqToSet(ExpectedOpenTimes(jobs[j].start_time, jobs[j].end_time, StepMs))
                   \subseteq klines

\* C7: a job's status moves pending -> running -> {completed, failed,
\* cancelled} (a cancel may also take pending to cancelled), and a terminal
\* status is never changed by a later step of the task or of cancel_job.
JobStatusStepAllowed(old, new) ==
    \/ new = old
    \/ old = "pending" /\ new \in {"running", "cancelled"}
    \/ old = "running" /\ new \in TerminalStatuses

C7_TerminalStatusAbsorbing ==
    [][\A j \in DOMAIN jobs :
          j \in DOMAIN jobs' /\ JobStatusStepAllowed(jobs[j].status, jobs'[j].status)]_vars

C9_ClientErrorFailsJob ==
    jobTask.fetch_error =>
        /\ jobTask.pc = "done"
        /\ jobTask.outcome = "returned"
        /\ jobs[jobTask.job_id].status = "failed"
        /\ Len(jobs[jobTask.job_id].log) > 0
        /\ jobs[jobTask.job_id].log[Len(jobs[jobTask.job_id].log)] = "error"

\* A get_klines call raised on the second batch of a job.
C9_Witness ==
    /\ jobTask.fetch_error
    /\ jobTask.i > 0
    /\ jobs[jobTask.job_id].status = "failed"

\* C10: for any sequence of upstream outcomes one get_klines call sends at
\* most 8 requests; it returns at the first 200, and when none of the first
\* 8 outcomes is a 200 it raises instead of sending a 9th request.
C10_AtMostEightRequests ==
    /\ [](/\ Len(kl.responses) <= max_retries
          /\ \A n \in 1..(Len(kl.responses) - 1) : kl.responses[n] # "200"
          /\ (kl.pc = "returned") <=>
                 (Len(kl.responses) > 0 /\ kl.responses[Len(kl.responses)] = "200"))
    /\ [][(/\ kl.pc = "attempt"
           /\ Len(kl.responses) = max_retries
           /\ kl' # kl)
              => (kl'.pc = "raised" /\ kl'.responses = kl.responses)]_vars

C10_Witness ==
    /\ kl.pc = "raised"
    /\ Len(kl.responses) = max_retries
    /\ \A n \in 1..Len(kl.responses) : kl.responses[n] \in {"429", "418", "timeout"}
    /\ \E n \in 1..Len(kl.responses) : kl.responses[n] = "timeout"
    /\ \E n \in 1..Len(kl.responses) : kl.responses[n] = "429"

\* C11: every request leaves when neither deadline of the rate limit is
\* ahead of the clock, and at least MIN_REQUEST_INTERVAL after the one before.
C11_RequestsRespectRateLimit ==
    [][wire'.n # wire.n =>
          /\ clock >= rate_limit.blocked_until
          /\ clock >= rate_limit.backoff_until
          /\ (wire.n > 0 => clock - wire.last >= MIN_REQUEST_INTERVAL)]_vars

\* Both callers have sent, after a 418 and a 429 set the two deadlines.
C11_Witness ==
    /\ wire.n >= 3
    /\ rate_limit.blocked_until > 0
    /\ rate_limit.backoff_until > 0
    /\ \E c \in RateCallers : gk[c].pc = "inflight" /\ gk[c].attempt = 0 /\ wire.last > 0
    /\ \E c \in RateCallers : gk[c].pc = "loop"

\* C19: a step never lowers last_processed_candle of a config, and a step
\* that changes it is the watermark write of a scan_config call whose frame
\* held the target candle and whose strategy was initialised and asked
\* about it.
C19_WatermarkMonotone ==
    [][\A id \in ConfigIds :
          /\ configs'[id].last_processed_candle >= configs[id].last_processed_candle
          /\ configs'[id].last_processed_candle # configs[id].last_processed_candle =>
                /\ scan.pc = "watermark"
                /\ configs'[id].last_processed_candle = scan.last_closed
                /\ scan.last_closed \in klines
                /\ strategy[scan.last_closed] # "init_error"
                /\ scan'.outcome = "evaluated"]_vars

\* The watermark has been advanced to a candle later than the first one the
\* scanner could see, so the clock moved between two scans.
C19_Witness ==
    /\ scan.pc = "done"
    /\ scan.outcome = "evaluated"
    /\ scan.last_closed > LastClosedCandleTime(FirstNow, StepMs)
    /\ \A id \in ConfigIds : configs[id].last_processed_candle = scan.last_closed

\* The value the curve must hold for bar t: realised equity, plus quantity
\* times the signed difference between the bar's close and the entry price
\* when a position is held at the close.
BarEquity(t) ==
    LET mark == bt.marks[t]
        held == mark.state
    IN  mark.equity +
        (IF held.side = "long" THEN held.quantity * (bt_df[t].close - held.entry_price)
         ELSE IF held.side = "short" THEN held.quantity * (held.entry_price - bt_df[t].close)
         ELSE 0)

CurveMarkedToMarket ==
    \A t \in 1..Len(bt.equity_curve) : bt.equity_curve[t] = BarEquity(t)

\* C20 as stated: a run that returned with no error has one value per candle.
C20_EveryReturnedRunHasFullCurve ==
    (bt.pc = "returned" /\ bt.error = "none") =>
        (Len(bt.equity_curve) = Len(bt_df) /\ CurveMarkedToMarket)

\* C20: a run that returned with no error and was not liquidated has one
\* value per candle of the frame; a liquidated run has one value per bar
\* walked before the bar at which it stopped; each value is the
\* mark-to-market equity at that bar's close.
C20_EquityCurve ==
    (bt.pc = "returned" /\ bt.error = "none") =>
        /\ CurveMarkedToMarket
        /\ ~bt.liquidated => Len(bt.equity_curve) = Len(bt_df)
        /\ bt.liquidated => Len(bt.equity_curve) = bt.t - 1 /\ bt.t <= Len(bt_df)

\* A run over a full frame returned after a position was held over a close
\* at a price other than its entry, and closed.
C20_Witness ==
    /\ bt.pc = "returned"
    /\ bt.error = "none"
    /\ ~bt.liquidated
    /\ Len(bt_df) = MaxBars
    /\ Len(bt.trade_log) > 0
    /\ \E t \in 1..Len(bt.marks) :
          /\ bt.marks[t].state.side # "flat"
          /\ bt.marks[t].state.entry_price # bt_df[t].close

\* ---------------------------------------------- trade lifecycle (SpecTrack)
TradeIds == DOMAIN tables.sim_trades
Trade(n) == tables.sim_trades[n]

\* C12: once a SimTrade is closed it stays closed and its exit_price,
\* exit_time, exit_reason and pnl are never written again, whatever write
\* of the tracker or of the routes is applied to it afterwards.
C12_ClosedTradeNeverRewritten ==
    [][\A n \in TradeIds :
          Trade(n).status = "closed" =>
             /\ n \in DOMAIN tables'.sim_trades
             /\ tables'.sim_trades[n].status = "closed"
             /\ tables'.sim_trades[n].exit_price = Trade(n).exit_price
             /\ tables'.sim_trades[n].exit_time = Trade(n).exit_time
             /\ tables'.sim_trades[n].exit_reason = Trade(n).exit_reason
             /\ tables'.sim_trades[n].pnl = Trade(n).pnl]_vars

C14_DeleteCascades ==
    [][\A c \in TrackConfigIds :
          (/\ api' # api /\ api'.op = "delete" /\ api'.id = c /\ api'.pc = "done"
           /\ \E n \in TradeIds : /\ Trade(n).config_id = c
                                  /\ Trade(n).status \in {"pending_entry", "open"})
          => /\ api'.status = 200
             /\ \A n \in TradeIds :
                   Trade(n).config_id = c => tables'.sim_trades[n].status = "closed"
             /\ \A n \in DOMAIN tables.signals :
                   tables.signals[n].config_id = c
                      => tables'.signals[n].status = "closed"]_vars

\* The rows of notification_log are pairwise different in (event_type,
\* reference_type, reference_id).
NoDuplicateNotification ==
    \A i, j \in DOMAIN tables.notification_log :
        tables.notification_log[i] = tables.notification_log[j] => i = j
Notified(log, key) == \E i \in DOMAIN log : log[i] = key

\* A step of the intrabar pass or of the candle-close pass that writes.
TrackerCloseStep ==
    /\ trk.pc \in {"stop_trade", "exit_trade"}
    /\ trk' # trk
    /\ tables' # tables

ClosedAtWorsePrice(row) ==
    /\ row.status = "closed"
    /\ row.exit_reason \in {<<"stop_intrabar">>, <<"exit_signal">>}
    /\ row.quantity # NULL /\ row.quantity[1] > 0
    /\ \/ row.side = "long" /\ row.exit_price[1] < row.entry_price[1]
       \/ row.side = "short" /\ row.exit_price[1] > row.entry_price[1]

C18_PendingEntryFill ==
    [][/\ \A n \in TradeIds :
             Trade(n).status = "pending_entry" =>
                \/ tables'.sim_trades[n] = Trade(n)
                \/ /\ trk.pc = "fill_write"
                   /\ trk.list[trk.i].trade.id = n
                   /\ tables'.sim_trades[n].status = "open"
                   /\ tables'.sim_trades[n].entry_price = trk.entry_price
                   /\ tables'.sim_trades[n].entry_time =
                         <<tables.signals[Trade(n).signal_id].trigger_candle_time + StepMs>>
                   /\ tables'.sim_trades[n].quantity =
                         <<Trade(n).invested_amount \div trk.entry_price[1]>>
                   /\ tables'.signals[Trade(n).signal_id].status = "active"
       /\ (trk.pc = "fill_read" /\ trk' # trk) =>
             LET open_time == trk.list[trk.i].trigger_candle_time + StepMs
             IN  IF open_time \in klines
                 THEN /\ trk'.pc = "fill_write"
                      /\ trk'.entry_price = <<CandleOpen(open_time)>>
                 ELSE IF now >= open_time + TICKER_GRACE_MS
                 THEN trk'.pc = "fill_ticker"
                 ELSE trk'.pc \notin {"fill_write", "fill_ticker"}
       /\ (trk.pc = "fill_ticker" /\ trk' # trk) =>
             \/ trk'.pc = "fill_write" /\ trk'.entry_price \in TickerAnswers \ {NULL}
             \/ trk'.pc # "fill_write"
       /\ (trk'.pc = "fill_write" /\ trk.pc # "fill_write") =>
             trk.pc \in {"fill_read", "fill_ticker"}]_vars

\* The trade was filled at the ticker's price after the grace, the entry
\* candle not being in the store.
C18_Witness ==
    /\ Trade(1).status = "open"
    /\ Trade(1).entry_price[1] \in TickerPrices
    /\ Trade(1).entry_time = <<NextCandleOpen(TriggerCandle)>>
    /\ Trade(1).quantity = <<InvestedAmount \div Trade(1).entry_price[1]>>
    /\ tables.signals[1].status = "active"
    /\ NextCandleOpen(TriggerCandle) \notin klines

\* ------------------------------------------- backtest walk (SpecBacktest)
\* C21: a bar whose exit or stop leaves the realised equity at or below
\* zero ends the run at that bar with liquidated set.
C21_BankruptcyStopsWalk ==
    [][(/\ bt.pc = "walk"
        /\ Len(bt'.trade_log) > Len(bt.trade_log)
        /\ bt'.equity <= 0)
       => bt'.liquidated /\ bt'.pc = "returned"]_vars

\* ------------------------------------------- verified ranges (SpecEnsure)
\* C29: no write to _verified_ranges lowers the value of the pair.
C29_VerifiedUptoMonotone ==
    [][\A key \in DOMAIN verified_ranges :
          key \in DOMAIN verified_ranges' /\ verified_ranges'[key] >= verified_ranges[key]]_vars

\* The expected open times of a task's window that the store lacks.
MissingOfTask(k) ==
    SeqToSet(ExpectedOpenTimes(tasks[k].start_ms, tasks[k].end_ms, StepMs)) \ klines

\* C30: a step of a background sync task changes _verified_ranges only
\* when it is the first query or the final re-query and the store then
\* lacks no expected open_time of the task's window; a failed fetch, an
\* unexpected error and a re-query that finds gaps leave it unchanged.
C30_SyncWritesOnlyWhenComplete ==
    [][\A k \in TaskIds :
          (/\ tasks[k].pc \in {"start", "fetch", "verify"}
           /\ tasks'[k] # tasks[k]
           /\ verified_ranges' # verified_ranges)
          => /\ tasks[k].pc \in {"start", "verify"}
             /\ MissingOfTask(k) = {}
             /\ verified_ranges' = [verified_ranges EXCEPT ![Key] = tasks[k].end_ms]]_vars

\* A task has fetched its gaps and is at the final re-query with its
\* window complete.
C30_Witness ==
    \E k \in TaskIds :
        /\ tasks[k].pc = "verify"
        /\ tasks[k].gaps # << >>
        /\ MissingOfTask(k) = {}

\* ------------------------------------------------- scanner (SpecScan)
\* C28: when ensure_candles has answered false, scan_config returns at
\* once (or the process ends): the frame is not loaded, no Signal or
\* SimTrade is written and last_processed_candle stays as it was.
C28_NotReadySkipsCycle ==
    [][(/\ scan.pc = "ensure"
        /\ scan' # scan
        /\ ens["scanner"].pc = "done"
        /\ ~ens["scanner"].ret)
       => /\ scan'.pc \in {"done", "idle"}
          /\ scan'.emitted = "no"
          /\ db' = db
          /\ configs' = configs]_vars

\* The call for a candle past the watermark has returned on a false answer
\* of ensure_candles; the candle is still ahead of the watermark.
C28_Witness ==
    /\ scan.pc = "done"
    /\ scan.outcome = "skipped"
    /\ ens["scanner"].pc = "done"
    /\ ~ens["scanner"].ret
    /\ ens["scanner"].end_ms = scan.last_closed + StepMs
    /\ \A c \in ConfigIds : configs[c].last_processed_candle < scan.last_closed
    /\ ~SignalExists(db.signals, 1, scan.last_closed)

\* C25: _expected_open_times(start, end, interval) returns, for a known
\* interval, the strictly ascending list of all multiples of the step in
\* [start, end): its first element is the smallest multiple >= start,
\* consecutive elements differ by exactly the step, and it is empty when
\* there is no such multiple; an unknown interval raises ValueError.
C25_ExpectedOpenTimes ==
    fn.op = "_expected_open_times" =>
        IF IntervalMs(fn.interval) = NULL
        THEN fn.result.raised = "ValueError"
        ELSE LET step  == IntervalMs(fn.interval)[1]
                 times == fn.result.times
                 want  == {t \in fn.start_ms..(fn.end_ms - 1) : t % step = 0}
             IN  /\ fn.result.raised = "none"
                 /\ SeqToSet(times) = want
                 /\ \A n \in 1..(Len(times) - 1) : times[n + 1] - times[n] = step
                 /\ times # << >> => \A t \in want : times[1] <= t
                 /\ (times = << >>) <=> (want = {})
C25_Witness ==
    /\ fn.op = "_expected_open_times"
    /\ fn.interval = "2h"
    /\ fn.start_ms % (2 * StepMs) # 0
    /\ Len(fn.result.times) >= 2
C25_WitnessUnknown ==
    fn.op = "_expected_open_times" /\ fn.result.raised = "ValueError"

\* C26: after _upsert_candles the klines table holds exactly one row for
\* every (symbol, interval, open_time) ever upserted, carrying the values of
\* the most recent upsert of that key, and no row for any other key;
\* upserting a candle that is already stored leaves the table as it is.
RowsOf(k) == {row \in candle_rows : KeyOf(row) = k}
C26_UpsertIdempotent ==
    /\ \A k \in CandleKeys :
          IF upserted[k] = NULL THEN RowsOf(k) = {}
          ELSE /\ Cardinality(RowsOf(k)) = 1
               /\ \A row \in RowsOf(k) : row.close = upserted[k][1]
    /\ \A c \in Candles :
          /\ ExecuteMany(ExecuteMany(candle_rows, <<c>>), <<c>>)
                = ExecuteMany(candle_rows, <<c>>)
          /\ c \in candle_rows => ExecuteMany(candle_rows, <<c>>) = candle_rows
C26_Witness ==
    /\ fn.op = "_upsert_candles"
    /\ Len(fn.candles) = 2
    /\ KeyOf(fn.candles[1]) = KeyOf(fn.candles[2])
    /\ fn.candles[1].close # fn.candles[2].close
    /\ \E row \in candle_rows : KeyOf(row) # KeyOf(fn.candles[1])

\* C27 as stated: with invested_amount given, the trade's invested_amount
\* is that value and its leverage is invested_amount / portfolio; else with
\* leverage given, invested_amount = portfolio * leverage; else leverage is
\* 1 and invested_amount = portfolio.
C27_SizingResolution ==
    fn.op = "_create_signal_and_sim_trade" =>
        LET config == fn.config
            trade  == fn.trade
        IN  IF config.invested_amount # NULL
            THEN /\ trade.invested_amount = config.invested_amount[1]
                 /\ trade.leverage * config.portfolio = trade.invested_amount
            ELSE IF config.leverage # NULL
            THEN /\ trade.leverage = config.leverage[1]
                 /\ trade.invested_amount = config.portfolio * config.leverage[1]
            ELSE trade.leverage = 1 /\ trade.invested_amount = config.portfolio

\* C27 amended: as stated, except that with invested_amount given the
\* leverage is invested_amount / portfolio only when portfolio > 0 and is 1
\* when portfolio <= 0.
C27_SizingResolutionPositivePortfolio ==
    fn.op = "_create_signal_and_sim_trade" =>
        LET config == fn.config
            trade  == fn.trade
        IN  /\ trade.portfolio = config.portfolio
            /\ IF config.invested_amount # NULL
               THEN /\ trade.invested_amount = config.invested_amount[1]
                    /\ IF config.portfolio > 0
                       THEN trade.leverage * config.portfolio = trade.invested_amount
                       ELSE trade.leverage = 1
               ELSE IF config.leverage # NULL
               THEN /\ trade.leverage = config.leverage[1]
                    /\ trade.invested_amount = config.portfolio * config.leverage[1]
               ELSE trade.leverage = 1 /\ trade.invested_amount = config.portfolio
C27_Witness ==
    /\ fn.op = "_create_signal_and_sim_trade"
    /\ fn.config.invested_amount = <<8>>
    /\ fn.config.leverage = <<2>>
    /\ fn.config.portfolio = 2
    /\ fn.trade.leverage = 4

\* The levels on_candle reads at bar t, and the instance init builds with
\* the parameters of self on another frame.
LevelsAt(self, t) ==
    IF self.name = "breakout"
    THEN <<self.max_prev[t + 1], self.min_prev[t + 1],
           self.min_exit[t + 1], self.max_exit[t + 1]>>
    ELSE <<self.last_support[t + 1], self.last_resistance[t + 1]>>
InitOf(self, candles) ==
    IF self.name = "breakout" THEN BreakoutInit(self.params, candles)
    ELSE SupportResistanceInit(self.params, candles)
PastWarmUp(self, t) == \A i \in DOMAIN LevelsAt(self, t) : LevelsAt(self, t)[i] # NULL
ExitLongLevel(self, t) ==
    IF self.name = "breakout" THEN self.min_exit[t + 1] ELSE self.last_support[t + 1]
Actions(signals) == {signals[i].action : i \in 1..Len(signals)}

\* C22: for both strategies and any bar past warm-up, on_candle returns at
\* most one signal; in a long position with low <= stop_price it returns
\* exactly [stop_long] whatever the close is, and exit_long only when the
\* stop is not hit; symmetrically for a short position with high; an entry
\* is returned only when flat, and when flat nothing but an entry.
C22_StopBeforeExitOneSignal ==
    (fn.op = "on_candle" /\ PastWarmUp(strat, fn.t)) =>
        LET candle  == strat.candles[fn.t + 1]
            state   == fn.state
            signals == fn.signals
        IN  /\ Len(signals) <= 1
            /\ (state.side = "long" /\ candle.low <= state.stop_price)
                  => Actions(signals) = {"stop_long"}
            /\ "exit_long" \in Actions(signals)
                  => state.side = "long" /\ candle.low > state.stop_price
            /\ "stop_long" \in Actions(signals)
                  => state.side = "long" /\ candle.low <= state.stop_price
            /\ (state.side = "short" /\ candle.high >= state.stop_price)
                  => Actions(signals) = {"stop_short"}
            /\ "exit_short" \in Actions(signals)
                  => state.side = "short" /\ candle.high < state.stop_price
            /\ "stop_short" \in Actions(signals)
                  => state.side = "short" /\ candle.high >= state.stop_price
            /\ state.side # "flat"
                  => Actions(signals) \cap {"entry_long", "entry_short"} = {}
            /\ state.side = "flat"
                  => Actions(signals) \subseteq {"entry_long", "entry_short"}
C22_Witness ==
    /\ fn.op = "on_candle"
    /\ PastWarmUp(strat, fn.t)
    /\ fn.state.side = "long"
    /\ strat.candles[fn.t + 1].low <= fn.state.stop_price
    /\ strat.candles[fn.t + 1].close < ExitLongLevel(strat, fn.t)[1]
    /\ Actions(fn.signals) = {"stop_long"}

\* C23: on a bar whose lookback is not yet satisfied (breakout: t below
\* max(N_entrada, M_salida); support/resistance: support or resistance
\* still unconfirmed at t) on_candle returns no signal, flat or in position.
LookbackUnsatisfied(self, t) ==
    IF self.name = "breakout"
    THEN t < Max(self.params.N_entrada, self.params.M_salida)
    ELSE self.last_support[t + 1] = NULL \/ self.last_resistance[t + 1] = NULL
C23_NoSignalBeforeWarmUp ==
    (fn.op = "on_candle" /\ LookbackUnsatisfied(strat, fn.t)) => fn.signals = << >>
C23_Witness ==
    /\ fn.op = "on_candle"
    /\ strat.name = "breakout"
    /\ strat.params.N_entrada = 2
    /\ strat.params.M_salida = 1
    /\ fn.t = 1
    /\ fn.state.side = "long"
    /\ strat.candles[2].low <= fn.state.stop_price
    /\ fn.signals = << >>
C23_WitnessZigzag ==
    /\ fn.op = "on_candle"
    /\ strat.name = "support_resistance"
    /\ fn.t >= 1
    /\ strat.last_resistance[fn.t + 1] # NULL
    /\ strat.last_support[fn.t + 1] = NULL
    /\ fn.state.side = "short"
    /\ strat.candles[fn.t + 1].high >= fn.state.stop_price
    /\ fn.signals = << >>

\* C24: the arrays init precomputes are causal.  For a frame that agrees
\* with the instance's frame on bars 0..t the levels at index t are equal;
\* the breakout levels at t are already fixed by bars t-N..t-1 (t-M..t-1
\* for the exit levels); and on_candle at t returns the same signals on
\* every frame that agrees on bars 0..t.
AgreeOn(f, g, from, to) == \A j \in from..to : j >= 1 => f[j] = g[j]
C24_InitArraysCausal ==
    /\ fn.op = "init" =>
          \A g \in CandleFrames, t \in 0..(Len(strat.candles) - 1) :
             Len(g) > t =>
               /\ AgreeOn(strat.candles, g, 1, t + 1)
                     => LevelsAt(InitOf(strat, g), t) = LevelsAt(strat, t)
               /\ (strat.name = "breakout"
                     /\ AgreeOn(strat.candles, g, t + 1 - strat.params.N_entrada, t))
                     => /\ InitOf(strat, g).max_prev[t + 1] = strat.max_prev[t + 1]
                        /\ InitOf(strat, g).min_prev[t + 1] = strat.min_prev[t + 1]
               /\ (strat.name = "breakout"
                     /\ AgreeOn(strat.candles, g, t + 1 - strat.params.M_salida, t))
                     => /\ InitOf(strat, g).min_exit[t + 1] = strat.min_exit[t + 1]
                        /\ InitOf(strat, g).max_exit[t + 1] = strat.max_exit[t + 1]
    /\ fn.op = "on_candle" =>
          \A g \in CandleFrames :
             (Len(g) > fn.t /\ AgreeOn(strat.candles, g, 1, fn.t + 1))
                => OnCandleOf(InitOf(strat, g), fn.t, g[fn.t + 1], fn.state) = fn.signals
C24_Witness ==
    /\ fn.op = "on_candle"
    /\ fn.signals # << >>
    /\ fn.t + 1 < Len(strat.candles)
    /\ \E g \in CandleFrames :
          /\ Len(g) = Len(strat.candles)
          /\ AgreeOn(strat.candles, g, 1, fn.t + 1)
          /\ g[fn.t + 2].high # strat.candles[fn.t + 2].high

\* The zig-zag pass of the instance: its variables before bar t (bars are
\* 1..Len here), and what bar t confirms.
ZigzagBefore(self, t) ==
    ZigzagLoop(ZigzagStart(self.candles), SubSeq(self.candles, 1, t - 1), 1,
               self.params.reversal_pct)
ZigzagEvent(self, t) ==
    LET before == ZigzagBefore(self, t)
        after  == ZigzagStep(before, self.candles[t].high, self.candles[t].low,
                             self.params.reversal_pct)
    IN  IF before.direction = "up" /\ after.direction = "down" THEN "resistance"
        ELSE IF before.direction = "down" /\ after.direction = "up" THEN "support"
        ELSE "none"

\* C36: the zig-zag pass starts in direction up; it confirms a resistance
\* exactly on a bar where, in direction up, low <= current_high * (1 -
\* reversal_pct), current_high being the highest high since the bar of the
\* last support confirmation (or the first bar), and a support exactly on a
\* bar where, in direction down, high >= current_low * (1 + reversal_pct),
\* current_low being the lowest low since the bar of the last resistance
\* confirmation; confirmations alternate, the first being a resistance;
\* support[t] and resistance[t] hold the latest confirmed value and never
\* return to NaN.
C36_ZigzagAlternates ==
    (fn.op = "init" /\ strat.name = "support_resistance") =>
        LET f == strat.candles
            n == Len(f)
            r == strat.params.reversal_pct
            ev[t \in 1..n] ==
                LET prior == {s \in 1..(t - 1) : ev[s] # "none"}
                    from  == IF prior = {} THEN 1 ELSE MaxOf(prior)
                    up    == prior = {} \/ ev[MaxOf(prior)] = "support"
                IN  IF up
                    THEN IF f[t].low * 100
                              <= MaxOf({f[s].high : s \in from..t}) * (100 - r)
                         THEN "resistance" ELSE "none"
                    ELSE IF f[t].high * 100
                              >= MinOf({f[s].low : s \in from..t}) * (100 + r)
                         THEN "support" ELSE "none"
            LevelAt(t, kind) ==
                LET at == {s \in 1..t : ev[s] = kind}
                IN  IF at = {} THEN NULL
                    ELSE LET s     == MaxOf(at)
                             prior == {q \in 1..(s - 1) : ev[q] # "none"}
                             from  == IF prior = {} THEN 1 ELSE MaxOf(prior)
                         IN  IF kind = "resistance"
                             THEN <<MaxOf({f[q].high : q \in from..s})>>
                             ELSE <<MinOf({f[q].low : q \in from..s})>>
            events == {t \in 1..n : ZigzagEvent(strat, t) # "none"}
        IN  /\ ZigzagBefore(strat, 1).direction = "up"
            /\ \A t \in 1..n :
                  /\ ZigzagEvent(strat, t) = ev[t]
                  /\ strat.last_resistance[t] = LevelAt(t, "resistance")
                  /\ strat.last_support[t] = LevelAt(t, "support")
            /\ events # {} => ZigzagEvent(strat, MinOf(events)) = "resistance"
            /\ \A s \in events, t \in events :
                  (s < t /\ \A q \in events : ~(s < q /\ q < t))
                     => ZigzagEvent(strat, s) # ZigzagEvent(strat, t)
            /\ \A t \in 1..(n - 1) :
                  /\ strat.last_support[t] # NULL => strat.last_support[t + 1] # NULL
                  /\ strat.last_resistance[t] # NULL
                        => strat.last_resistance[t + 1] # NULL
C36_Witness ==
    /\ fn.op = "init"
    /\ strat.name = "support_resistance"
    /\ Len(strat.candles) = 3
    /\ strat.last_resistance[1] # NULL
    /\ strat.last_support[1] = NULL
    /\ strat.last_support[2] # NULL
    /\ ZigzagEvent(strat, 3) = "resistance"

\* C31: every background sync task eventually ends, whatever path it
\* takes, and the step that ends it removes its (symbol, interval) from
\* _syncing; and whenever the pair is in _syncing a task is in flight.
InFlight(k) == tasks[k].pc # "unused"
C31_SyncTaskReleasesKey ==
    /\ \A k \in TaskIds : InFlight(k) ~> ~InFlight(k)
    /\ [][\A k \in TaskIds :
             (tasks[k].pc # "unused" /\ tasks'[k].pc = "unused") => Key \notin syncing']_vars
    /\ [](Key \in syncing => \E k \in TaskIds : InFlight(k))
C31_Witness ==
    /\ syncing = {}
    /\ tasks[1].pc = "unused"
    /\ tasks[2].pc = "verify"

\* C39: when the upstream answers every get_klines call with the candles
\* of the requested window (at most limit of them, from the window start)
\* and ensure_candles is called again and again for one fixed window, it
\* eventually returns true, whatever gaps the store starts with.
ReturnedTrue(c) == ens[c].pc = "done" /\ ens[c].ret
C39_RepeatedEnsureReturnsTrue == \A c \in Callers : <>ReturnedTrue(c)
C39_Witness ==
    /\ ReturnedTrue("scanner")
    /\ klines = UpstreamOpenTimes
    /\ verified_ranges[Key] = Horizon
    /\ \E k \in TaskIds :
          /\ tasks[k].pc = "verify"
          /\ Len(tasks[k].gaps) = 2
          /\ tasks[k].gaps[2] - tasks[k].gaps[1] >= BATCH_SIZE * StepMs

\* C32: once a cancel has taken effect on a running job (its status is
\* cancelled and the job task is past the write of running), the task
\* starts no batch: it finishes at most the batch whose status check it
\* had already passed, never sets the job running again, and returns.
CancelledWhileRunning ==
    /\ jobTask.pc \in {"plan", "check", "batch", "final"}
    /\ jobs[jobTask.job_id].status = "cancelled"
C32_CancelStopsAfterOneBatch ==
    /\ [][(CancelledWhileRunning /\ jobTask' # jobTask)
             => /\ jobTask'.pc # "batch"
                /\ jobTask.pc = "check" => jobTask'.pc = "done" /\ klines' = klines
                /\ jobs'[jobTask.job_id].status \in TerminalStatuses]_vars
    /\ CancelledWhileRunning ~> (jobTask.pc = "done")
C32_Witness ==
    /\ jobTask.pc = "done"
    /\ jobs[jobTask.job_id].status = "cancelled"
    /\ jobTask.i > 0
    /\ jobTask.i < Len(jobTask.gaps)
    /\ jobTask.gaps[jobTask.i + 1] \notin klines

\* C33: at most one klines request is in flight at any time; a caller is
\* inside an attempt (waiting for the rate limit, sending, in flight, or
\* sleeping after a response) only while it holds the client's lock, so
\* two callers are never inside an attempt together; and used_weight,
\* last_request_time, backoff_until and blocked_until change only in the
\* step that handles the response of the caller holding the lock.
InAttempt(c) ==
    gk[c].pc \in {"blocked", "backoff", "pacing", "send", "inflight", "sleep"}
C33_AttemptsSerialised ==
    /\ [](Cardinality({c \in RateCallers : gk[c].pc = "inflight"}) <= 1)
    /\ [](\A c \in RateCallers : InAttempt(c) => lock = c)
    /\ [][rate_limit' # rate_limit
             => \E c \in RateCallers :
                   /\ lock = c
                   /\ gk[c].pc = "inflight"
                   /\ gk'[c] # gk[c]
                   /\ \A d \in RateCallers \ {c} : gk'[d] = gk[d] /\ ~InAttempt(d)]_vars
C33_Witness ==
    /\ gk[1].pc = "inflight"
    /\ gk[2].pc = "loop"
    /\ gk[2].attempt > 0
    /\ rate_limit.backoff_until > 0
    /\ rate_limit.used_weight > 0

\* ------------------------------------------- tracker passes (SpecTrack)
\* The pass of the loop a position of the tracker belongs to: 0 asleep,
\* 1 the fill, 2 the intrabar stops, 3 the candle-close exits.
PassOf(pc) ==
    IF pc = "idle" THEN 0
    ELSE IF pc \in {"fill_ensure", "fill_read", "fill_ticker", "fill_write"} THEN 1
    ELSE IF pc \in {"stops_begin", "stop_ticker", "stop_trade"} THEN 2
    ELSE 3
InExitPass == trk.pc \in {"exit_ensure", "exit_trade"}

\* C34: in a turn of the tracker loop the pending entries are filled first,
\* then the intrabar stops are checked, then the candle-close exits; the
\* candle-close pass works on the trades that are open in the database when
\* it starts; and no trade that the intrabar pass of the turn closed is in
\* the list of, or evaluated by, a candle-close pass of the same turn.
C34_StopPassBeforeExitPass ==
    /\ [][PassOf(trk'.pc) # PassOf(trk.pc) =>
             \/ PassOf(trk.pc) = 0 /\ PassOf(trk'.pc) \in {1, 2}
             \/ PassOf(trk.pc) = 1 /\ PassOf(trk'.pc) = 2
             \/ PassOf(trk.pc) = 2 /\ PassOf(trk'.pc) = 3
             \/ PassOf(trk.pc) = 3 /\ PassOf(trk'.pc) = 0]_vars
    /\ [][(trk.pc = "exits_begin" /\ trk'.pc = "exit_ensure") =>
             /\ trk'.list = JoinedInStatus(tables, "open")
             /\ \A n \in DOMAIN trk'.list : Trade(trk'.list[n].trade.id).status = "open"]_vars
    /\ [](InExitPass =>
             \A n \in DOMAIN trk.list : trk.list[n].trade.id \notin trk_log.stopped)
    /\ [][\A key \in DOMAIN trk_log.on_candle :
             trk_log'.on_candle[key] # trk_log.on_candle[key] =>
                key[1] \notin trk_log.stopped]_vars

\* The intrabar pass has just closed the trade, and the loop is about to
\* run the candle-close pass for the new boundary of the trade's interval.
C34_Witness ==
    /\ trk.pc = "exits_begin"
    /\ TrackerIntervals[trk.interval] = "1h"
    /\ trk_log.stopped = {1}
    /\ Trade(1).status = "closed"
    /\ CurrentCandleOpen(now, StepMs) > last_candle_check[trk.interval]

\* C35 as stated: on_candle is called for an open trade against a given
\* last-closed candle at most once, over any sequence of turns of the loop.
C35_EvaluatedOncePerCandle ==
    \A key \in DOMAIN trk_log.on_candle : trk_log.on_candle[key] <= 1

\* C37 as stated: every trade that was filled and then closed by a pass of
\* the tracker has exit_time >= entry_time.
ClosedByTracker(row) ==
    /\ row.status = "closed"
    /\ row.entry_time # NULL
    /\ row.exit_reason \in {<<"stop_intrabar">>, <<"exit_signal">>}
C37_ExitNotBeforeEntry ==
    \A n \in TradeIds :
        ClosedByTracker(Trade(n)) => Trade(n).exit_time[1] >= Trade(n).entry_time[1]

\* C38: in every committed state each SimTrade has its Signal and each
\* Signal its SimTrade, and their statuses agree: pending with
\* pending_entry, active with open, closed with closed.
SignalStatusOf(trade_status) ==
    IF trade_status = "pending_entry" THEN "pending"
    ELSE IF trade_status = "open" THEN "active"
    ELSE "closed"
C38_SignalMatchesTrade ==
    /\ \A n \in TradeIds :
          /\ Trade(n).signal_id \in DOMAIN tables.signals
          /\ Trade(n).status \in {"pending_entry", "open", "closed"}
          /\ tables.signals[Trade(n).signal_id].status = SignalStatusOf(Trade(n).status)
    /\ \A m \in DOMAIN tables.signals :
          \E n \in TradeIds : Trade(n).signal_id = m

\* The trade was filled and closed by the intrabar pass, and the deletion
\* of its config was then asked for and refused.
C38_Witness ==
    /\ Trade(1).status = "closed"
    /\ tables.signals[1].status = "closed"
    /\ Trade(1).exit_reason = <<"stop_intrabar">>
    /\ api.op = "delete" /\ api.id = 1 /\ api.status = 500
    /\ tables.notification_log # << >>

\* ----------------------------------- order of the trades (SpecBacktestLong)
\* The rows of the trade_log as written so far.
Row(n) == bt.trade_log[n]
RowsInOrder ==
    /\ \A n \in DOMAIN bt.trade_log : Row(n).exit_time >= Row(n).entry_time
    /\ \A m, n \in DOMAIN bt.trade_log : m < n => Row(n).entry_time >= Row(m).exit_time
\* A deferred entry exists only while flat, so its execution at the next
\* open finds no position.
DeferredOnlyWhileFlat ==
    bt.pending_entry.action \in EntryActions => bt.state.side = "flat"
\* A bar changes the position only from flat to a new one or from one to
\* flat: never from one position to another.
OnePositionStep ==
    (bt'.state # bt.state /\ bt.state.side # "flat") => bt'.state = FlatState
\* The bar of this step executed an exit or a stop.
ExitExecuted == Len(bt'.trade_log) = Len(bt.trade_log) + 1

\* C40 as stated: one position at a time, entries only while flat, the
\* trade_log in order, and no entry signalled or executed on a bar that
\* executed an exit or stop: no row closes the position on the bar that
\* opened it.
C40_TradesInOrderNoEntryOnExitBar ==
    /\ [](RowsInOrder /\ DeferredOnlyWhileFlat)
    /\ [](\A n \in DOMAIN bt.trade_log : Row(n).exit_time # Row(n).entry_time)
    /\ [][OnePositionStep]_vars
    /\ [][ExitExecuted => bt'.state = FlatState /\ bt'.pending_entry = NoSignal]_vars

\* C40: one position at a time, entries only while flat, the trade_log in
\* order (each row has exit_time >= entry_time, each later row entry_time >=
\* the previous row's exit_time), and after the exit or stop of a bar no
\* entry is deferred or executed on that bar; the entry deferred from the
\* bar before is executed at the bar's open, before the bar's signals, and
\* may be closed by the exit or stop of the same bar.
C40_TradesInOrder ==
    /\ [](RowsInOrder /\ DeferredOnlyWhileFlat)
    /\ [][OnePositionStep]_vars
    /\ [][ExitExecuted => bt'.state = FlatState /\ bt'.pending_entry = NoSignal]_vars
    /\ [][(ExitExecuted /\ bt'.trade_log[Len(bt'.trade_log)].entry_time = bt.t) =>
             /\ params.modo_ejecucion = "open_next"
             /\ bt.pending_entry.action \in EntryActions]_vars

\* Two round trips in four bars, each opened at a bar's open and closed on
\* the same bar.
C40_Witness ==
    /\ Len(bt.trade_log) = 2
    /\ params.modo_ejecucion = "open_next"
    /\ Row(2).entry_time > Row(1).exit_time
    /\ Row(2).exit_time = Row(2).entry_time
    /\ bt.pc = "returned"
    /\ ~bt.liquidated

====
